---- MODULE Spec2Model ----
(***************************************************************************)
(* Model of the playlist-creator task controller of the Spotify clone      *)
(* (App component, src/unnamed/part_000 lines 836-1575, and the            *)
(* PlaylistCreator view, lines 2212-2455).                                 *)
(*                                                                         *)
(* Every handler is an async function.  It is cut at its awaits: one       *)
(* action runs the handler from the completion of the pending await to the *)
(* next await (or to the end of its finally block).  The response of the   *)
(* remote service is chosen by the environment when the await completes.   *)
(***************************************************************************)
EXTENDS Integers, Sequences, FiniteSets, TLC

\* ---------------------------------------------------------------- bounds
MaxTasks == 2        \* handlers that get past their validation, per run
MaxTracks == 2       \* items in one response (tracks, songs, page items)
MaxSongs == 1        \* songs in one answer of the AI model
MaxPages == 2        \* pages of one paginated listing
MaxPlaylists == 1    \* playlists on one page of the playlist listing
MaxGenres == 2       \* genre names the catalog knows

\* ------------------------------------------------------- program values
Undefined == "undefined"
NoController == 0

TaskIds == 1..MaxTasks

\* The five loading flags of App (lines 861-880).
Flags == {"wqxr", "custom", "topTracks", "allSongs", "genreFusion"}
\* The flags that have a progress state next to them (AI has none).
ProgressFlags == {"wqxr", "topTracks", "allSongs", "genreFusion"}

Kinds == {"wqxr", "ai", "top", "all", "scan", "fusion"}
\* The kinds of task that write a playlist.
WritingKinds == {"wqxr", "ai", "top", "all", "fusion"}

\* A track URI is the string "spotify:track:<id>"; it is kept as its
\* colon-separated segments.
TrackUri(id) == <<"spotify", "track", id>>
CatalogUris == {TrackUri("a"), TrackUri("b")}

\* Progress values are JavaScript numbers; they are kept as exact fractions.
Frac(n, d) == [num |-> n, den |-> d]
Zero == Frac(0, 1)

\* Outcomes of one call of fetch(): a 2xx response, a non-2xx response other
\* than 401, a 401 response, or a rejected promise (network error).
HttpOutcomes == {"ok", "fail", "unauth", "neterr"}

VARIABLES
    token,            \* TRUE while App holds a bearer token
    profile,          \* TRUE once the user profile is loaded
    creatorStatus, creatorError, createdPlaylist,
    libraryVersion,
    isLoading,        \* [Flags -> BOOLEAN]
    progress,         \* [ProgressFlags -> fraction]
    abortController,  \* [Flags -> controller id or NoController]
    availableGenres,  \* sorted list of genres found by the last scan
    selectedGenres,   \* list of genres picked for a fusion
    tasks,            \* [TaskIds -> invocation of a handler]
    started,          \* number of AbortControllers created so far
    clickRejected,    \* TRUE right after a click on a disabled start button
    last,             \* the last invocation that ended
    proxy,            \* the requests of the proxy server, by connection
    bearer,           \* the access token App holds while token is TRUE
    now,              \* Date.now(), in milliseconds
    localStorage,     \* [Urls -> the item stored under the URL]
    hooks             \* [Urls -> the instance of useSpotifyApi(url)]

\* The state of the API hook and of its cache.
cacheVars == <<bearer, now, localStorage, hooks>>

vars == <<token, profile, creatorStatus, creatorError, createdPlaylist,
          libraryVersion, isLoading, progress, abortController,
          availableGenres, selectedGenres, tasks, started, clickRejected,
          last, proxy, cacheVars>>

IdleTask ==
    [kind |-> "none", pc |-> "idle", aborted |-> FALSE, calls |-> <<>>,
     i |-> 0, n |-> 0, batch |-> 0, uris |-> <<>>, extra |-> 0,
     newPlaylist |-> [type |-> "none"],
     playlists |-> 0, page |-> 0, artists |-> <<>>, sawTracks |-> {},
     created |-> <<>>, more |-> FALSE, genres |-> {},
     skipped |-> FALSE, repeated |-> FALSE]

NoLast == [kind |-> "none", outcome |-> "none", aborted |-> FALSE,
           createFailed |-> FALSE, appendFailed |-> FALSE, created |-> <<>>,
           total |-> 0, creates |-> 0, appended |-> 0,
           pc |-> "idle", answer |-> "none"]

Running(t) == tasks[t].pc # "idle"

\* ------------------------------------------------------------- helpers
FlagOf(kind) ==
    CASE kind = "wqxr" -> "wqxr"
      [] kind = "ai" -> "custom"
      [] kind = "top" -> "topTracks"
      [] kind = "all" -> "allSongs"
      [] kind = "scan" -> "genreFusion"
      [] kind = "fusion" -> "genreFusion"

CancelMessage(kind) ==
    CASE kind = "wqxr" -> "WQXR playlist creation cancelled."
      [] kind = "ai" -> "AI playlist creation cancelled."
      [] kind = "top" -> "Top tracks playlist creation cancelled."
      [] kind = "all" -> "All songs playlist creation cancelled."
      [] kind = "scan" -> "Genre scan cancelled."
      [] kind = "fusion" -> "Genre fusion playlist creation cancelled."

\* A call of the log: what was asked, how many items it carried (for a
\* search: the number of the query in its list), and how it ended
\* ("pending" while in flight).
NoRange == [from |-> 0, to |-> 0]
Call(op, n, pl) ==
    [op |-> op, n |-> n, pl |-> pl, st |-> "pending", at |-> NoRange]

\* The append call that sends the items [from, to) of the handler's list to
\* the collection pl.
AppendCall(range, pl) ==
    [Call("append", range.to - range.from, pl) EXCEPT !.at = range]

\* fetch(url, {signal}): with an aborted signal the promise is rejected at
\* once and no request leaves the browser.
Issue(t, op, n, pl) ==
    IF tasks[t].aborted THEN tasks[t].calls
    ELSE Append(tasks[t].calls, Call(op, n, pl))

\* The call in flight, if there is one, ends with st.
Settle(calls, st) ==
    IF calls # <<>> /\ calls[Len(calls)].st = "pending"
    THEN [calls EXCEPT ![Len(calls)] = [@ EXCEPT !.st = st]]
    ELSE calls

\* The calls op of a log: how many there are, and the items they carried.
Count(calls, op) == Cardinality({k \in 1..Len(calls) : calls[k].op = op})

RECURSIVE ItemsBetween(_, _, _, _)
ItemsBetween(calls, op, lo, hi) ==
    IF lo > hi THEN 0
    ELSE IF lo = hi THEN (IF calls[lo].op = op THEN calls[lo].n ELSE 0)
    ELSE ItemsBetween(calls, op, lo, (lo + hi) \div 2)
             + ItemsBetween(calls, op, (lo + hi) \div 2 + 1, hi)
ItemsFrom(calls, op, k) == ItemsBetween(calls, op, k, Len(calls))
Items(calls, op) == ItemsFrom(calls, op, 1)

\* Some call op of the log ended with st.
Answered(calls, op, st) ==
    \E k \in 1..Len(calls) : calls[k].op = op /\ calls[k].st = st

\* Response bodies of the create-playlist endpoint: the new playlist, or the
\* error object of a non-2xx response (which has no id).
Playlist(id) == [type |-> "playlist", id |-> id]
ErrorBody == [type |-> "error"]
NoPlaylist == [type |-> "none"]
IdOf(obj) == IF obj.type = "playlist" THEN obj.id ELSE Undefined

AbortError ==
    [name |-> "AbortError", message |-> <<"The user aborted a request.">>]
Error(msg) == [name |-> "Error", message |-> msg]
TypeError(msg) == [name |-> "TypeError", message |-> msg]
NetworkError == TypeError(<<"Failed to fetch">>)
NotAuthenticated == Error(<<"User is not authenticated">>)

\* The disabled expression without the genre-fusion flag.
isAnyCurationLoadingNoFusion ==
    \/ isLoading["wqxr"]
    \/ isLoading["custom"]
    \/ isLoading["topTracks"]
    \/ isLoading["allSongs"]

\* The disabled expression without the all-songs flag.
isAnyCurationLoadingNoAllSongs ==
    \/ isLoading["wqxr"]
    \/ isLoading["custom"]
    \/ isLoading["topTracks"]
    \/ isLoading["genreFusion"]

\* PlaylistCreator, line 2224: the `disabled` of every start button.
isAnyCurationLoading ==
    \/ isLoading["wqxr"]
    \/ isLoading["custom"]
    \/ isLoading["topTracks"]
    \/ isLoading["allSongs"]
    \/ isLoading["genreFusion"]

\* ------------------------------------------------- the end of a handler
\* The finally block of the handler of tasks[t].  The AI handler has no
\* progress state, the fusion handler does not reset its progress, and the
\* genre scan does not clear the controller reference.
Finally(t, outcome, calls) ==
    LET k == tasks[t].kind
        f == FlagOf(k)
    IN  /\ isLoading' = [isLoading EXCEPT ![f] = FALSE]
        /\ progress' = IF k \in {"wqxr", "top", "all", "scan"}
                        THEN [progress EXCEPT ![f] = Zero]
                        ELSE progress
        /\ abortController' = IF k # "scan"
                               THEN [abortController EXCEPT ![f] = NoController]
                               ELSE abortController
        /\ tasks' = [tasks EXCEPT ![t] = IdleTask]
        /\ last' = [kind |-> k, outcome |-> outcome,
                     aborted |-> tasks[t].aborted,
                     createFailed |-> Answered(calls, "create", "fail"),
                     appendFailed |-> Answered(calls, "append", "fail"),
                     created |-> tasks[t].created,
                     total |-> Len(tasks[t].uris) + tasks[t].extra,
                     creates |-> Count(calls, "create"),
                     appended |-> Items(calls, "append"),
                     pc |-> tasks[t].pc,
                     answer |-> IF calls = <<>> THEN "none"
                                ELSE calls[Len(calls)].st]
        /\ clickRejected' = FALSE
        /\ UNCHANGED <<profile, started, proxy, cacheVars>>

\* Messages are template strings; they are kept as their pieces, '' as <<>>.
ErrorText(kind, msg) ==
    IF kind = "ai" THEN <<"An error occurred: ">> \o msg ELSE msg

\* The catch block, then the finally block: err was thrown inside the try.
\* tok is the token after the step (spotifyFetch logs out on a 401).
Throw(t, err, calls, tok) ==
    /\ IF err.name = "AbortError"
       THEN /\ creatorStatus' = CancelMessage(tasks[t].kind)
            /\ UNCHANGED creatorError
       ELSE /\ creatorError' = ErrorText(tasks[t].kind, err.message)
            /\ UNCHANGED creatorStatus
    /\ Finally(t, IF err.name = "AbortError" THEN "Cancelled" ELSE "Failed",
               calls)
    /\ token' = tok
    /\ UNCHANGED <<createdPlaylist, libraryVersion, availableGenres,
                   selectedGenres>>

\* The last statements of a try block that ran to its end.
Succeed(t, playlist, status, calls) ==
    /\ createdPlaylist' = playlist
    /\ creatorStatus' = status
    /\ libraryVersion' = libraryVersion + 1
    /\ Finally(t, "Succeeded", calls)
    /\ UNCHANGED <<creatorError, token, availableGenres, selectedGenres>>

\* The handler goes on to its next await: rec is its new state.
Proceed(t, rec, status, prog) ==
    /\ tasks' = [tasks EXCEPT ![t] = rec]
    /\ creatorStatus' = status
    /\ progress' = prog
    /\ clickRejected' = FALSE
    /\ UNCHANGED <<token, profile, creatorError, createdPlaylist,
                   libraryVersion, isLoading, abortController,
                   availableGenres, selectedGenres, started, proxy, cacheVars, last>>

\* What an awaited spotifyFetch throws: AbortError when the signal is
\* aborted, a network error, or the error of the 401 branch.
\* A spotifyFetch that hands a 401 response to its caller.
FetchThrowsNot401(t, out) == tasks[t].aborted \/ out = "neterr"

FetchThrows(t, out) == tasks[t].aborted \/ out \in {"neterr", "unauth"}
FetchError(t, out) ==
    IF tasks[t].aborted THEN AbortError
    ELSE IF out = "unauth" THEN NotAuthenticated ELSE NetworkError
FetchSettled(t, out) ==
    Settle(tasks[t].calls, IF tasks[t].aborted THEN "aborted" ELSE out)
TokenAfter(t, out) ==
    IF ~tasks[t].aborted /\ out = "unauth" THEN FALSE ELSE token

\* ------------------------------------------------------ clicks (the UI)
\* A click on a disabled start button: no handler runs.
RejectedClick ==
    /\ clickRejected' = TRUE
    /\ UNCHANGED <<token, profile, creatorStatus, creatorError,
                   createdPlaylist, libraryVersion, isLoading, progress,
                   abortController, availableGenres, selectedGenres, tasks,
                   started, proxy, cacheVars, last>>

\* A handler's early return after setCreatorError(msg).
EarlyReturn(status, msg, playlist) ==
    /\ creatorStatus' = status
    /\ creatorError' = msg
    /\ createdPlaylist' = playlist
    /\ clickRejected' = FALSE
    /\ UNCHANGED <<token, profile, libraryVersion, isLoading, progress,
                   abortController, availableGenres, selectedGenres, tasks,
                   started, proxy, cacheVars, last>>

NoProfile == <<"Could not get user profile. Please try again.">>

\* The statements of a handler from `new AbortController()` to its first
\* await; rec is the handler's state at that await.
Launch(kind, rec, status, prog, playlist, genres) ==
    LET t == started + 1
        f == FlagOf(kind)
    IN  /\ started' = t
        /\ UNCHANGED <<proxy, cacheVars>>
        /\ abortController' = [abortController EXCEPT ![f] = t]
        /\ isLoading' = [isLoading EXCEPT ![f] = TRUE]
        /\ creatorError' = <<>>
        /\ createdPlaylist' = playlist
        /\ progress' = prog
        /\ creatorStatus' = status
        /\ tasks' = [tasks EXCEPT ![t] = rec]
        /\ clickRejected' = FALSE
        /\ availableGenres' = genres
        /\ last' = NoLast
        /\ UNCHANGED <<token, profile, libraryVersion, selectedGenres>>

FirstCall(op) == <<Call(op, 0, Undefined)>>

\* The cancel button of a card is shown while the card's flag is set; its
\* handler calls abort() on the controller the flag's state refers to.
Cancel(f) ==
    /\ token
    /\ isLoading[f]
    /\ abortController[f] # NoController
    /\ Running(abortController[f])
    /\ ~tasks[abortController[f]].aborted
    /\ tasks' = [tasks EXCEPT ![abortController[f]] =
                    [@ EXCEPT !.aborted = TRUE,
                              !.calls = Settle(@, "aborted")]]
    /\ clickRejected' = FALSE
    /\ UNCHANGED <<token, profile, creatorStatus, creatorError,
                   createdPlaylist, libraryVersion, isLoading, progress,
                   abortController, availableGenres, selectedGenres, started, proxy,
                   cacheVars, last>>

\* HomePage stores the fetched profile in App (part_000 lines 2066-2076).
SetProfile ==
    /\ token
    /\ ~profile
    /\ profile' = TRUE
    /\ clickRejected' = FALSE
    /\ UNCHANGED <<token, creatorStatus, creatorError, createdPlaylist,
                   libraryVersion, isLoading, progress, abortController,
                   availableGenres, selectedGenres, tasks, started, proxy, cacheVars, last>>

\* --------------------------------------------- handleCreateWQXRPlaylist
ClickCreateWQXR ==
    /\ token
    /\ IF isAnyCurationLoading THEN RejectedClick
       ELSE IF ~profile
       THEN EarlyReturn(creatorStatus, NoProfile, createdPlaylist)
       ELSE /\ started < MaxTasks
            /\ Launch("wqxr",
                      [IdleTask EXCEPT !.kind = "wqxr", !.pc = "proxy",
                                       !.calls = FirstCall("proxy")],
                      "Requesting playlist from proxy server...",
                      [progress EXCEPT !["wqxr"] = Zero], NoPlaylist,
                      availableGenres)

\* data.tracks of a proxy response: missing, or a list of up to MaxTracks
\* {title, composer} pairs (the list is kept as its length).
ProxyTracks ==
    {[present |-> FALSE, length |-> 0]}
        \cup {[present |-> TRUE, length |-> n] : n \in 0..MaxTracks}

\* A handler that starts the search loop whatever the proxy has parsed.
WqxrProxyResponseNoTest(t, out, tr) ==
    LET calls == Settle(tasks[t].calls, out) IN
    IF out = "neterr" THEN Throw(t, NetworkError, calls, token)
    ELSE IF out = "fail"
    THEN Throw(t, Error(<<"Failed to fetch data from proxy server. Make sure it is running.">>),
               calls, token)
    ELSE Proceed(t,
           [tasks[t] EXCEPT !.pc = "search", !.n = tr.length, !.i = 0,
                            !.uris = <<>>,
                            !.calls = Append(calls, Call("search", 1, Undefined))],
           "Found tracks from WQXR. Searching on Spotify...",
           progress)

\* Lines 1024-1035 for a fetch that ended with out and, for a 2xx
\* response, the body tr: up to the first search call.
WqxrProxyResponse(t, out, tr) ==
    LET calls == Settle(tasks[t].calls, out) IN
    IF out = "neterr" THEN Throw(t, NetworkError, calls, token)
    ELSE IF out = "fail"
    THEN Throw(t, Error(<<"Failed to fetch data from proxy server. Make sure it is running.">>),
               calls, token)
    ELSE IF ~tr.present \/ tr.length = 0
    THEN Throw(t, Error(<<"Could not parse any tracks from the WQXR playlist.">>),
               calls, token)
    ELSE Proceed(t,
           [tasks[t] EXCEPT !.pc = "search", !.n = tr.length, !.i = 0,
                            !.uris = <<>>,
                            !.calls = Append(calls, Call("search", 1, Undefined))],
           "Found tracks from WQXR. Searching on Spotify...",
           progress)

\* await fetch(proxy) ... to the first search call.
WqxrProxyDone(t) ==
    /\ tasks[t].kind = "wqxr"
    /\ tasks[t].pc = "proxy"
    /\ IF tasks[t].aborted
       THEN Throw(t, AbortError, tasks[t].calls, token)
       ELSE \E out \in {"ok", "fail", "neterr"}, tr \in ProxyTracks :
              WqxrProxyResponse(t, out, tr)

\* The body of a search response: searchData.tracks.items of a 2xx response,
\* a ranked list of candidates (the request asks for limit=1; the handlers
\* read items[0] whatever the length).  A non-2xx response carries an error
\* object, which has no `tracks`.
SearchItems ==
    {<<>>, <<TrackUri("a")>>, <<TrackUri("b"), TrackUri("a")>>}

\* The log after a search response with these candidates was read.
Heard(calls, items) ==
    [calls EXCEPT ![Len(calls)] = [@ EXCEPT !.pl = items]]

\* await spotifyFetch(search) ... await delay(50)
WqxrSearchDone(t) ==
    /\ tasks[t].kind = "wqxr"
    /\ tasks[t].pc = "search"
    /\ \E out \in HttpOutcomes, items \in SearchItems :
         IF FetchThrows(t, out)
         THEN Throw(t, FetchError(t, out), FetchSettled(t, out),
                    TokenAfter(t, out))
         ELSE IF out = "fail"
         THEN Throw(t, TypeError(<<"Cannot read properties of undefined (reading 'items')">>),
                    FetchSettled(t, out), token)
         ELSE Proceed(t,
                [tasks[t] EXCEPT !.pc = "searchDelay",
                                 !.uris = IF items = <<>> THEN @
                                          ELSE Append(@, items[1]),
                                 !.calls = Heard(FetchSettled(t, out),
                                                 items)],
                creatorStatus,
                [progress EXCEPT !["wqxr"] =
                    Frac((tasks[t].i + 1) * 100, tasks[t].n)])

\* A search loop that ends after its first query.
WqxrSearchDelayDoneOnce(t) ==
    /\ tasks[t].kind = "wqxr"
    /\ tasks[t].pc = "searchDelay"
    /\ IF tasks[t].uris = <<>>
       THEN Throw(t, Error(<<"Could not find any of the WQXR tracks on Spotify.">>),
                  tasks[t].calls, token)
       ELSE Proceed(t,
              [tasks[t] EXCEPT !.pc = "create",
                               !.calls = Issue(t, "create", 0, Undefined)],
              "Creating new WQXR playlist...", progress)

\* await delay(50) ... to the next search call, or to the create call.
WqxrSearchDelayDone(t) ==
    /\ tasks[t].kind = "wqxr"
    /\ tasks[t].pc = "searchDelay"
    /\ IF tasks[t].i + 1 < tasks[t].n
       THEN Proceed(t,
              [tasks[t] EXCEPT !.pc = "search", !.i = @ + 1,
                               !.calls = Issue(t, "search", tasks[t].i + 2,
                                               Undefined)],
              creatorStatus, progress)
       ELSE IF tasks[t].uris = <<>>
       THEN Throw(t, Error(<<"Could not find any of the WQXR tracks on Spotify.">>),
                  tasks[t].calls, token)
       ELSE Proceed(t,
              [tasks[t] EXCEPT !.pc = "create",
                               !.calls = Issue(t, "create", 0, Undefined)],
              "Creating new WQXR playlist...", progress)

\* await spotifyFetch(create); await json() ... to the append call.
WqxrCreateDone(t) ==
    /\ tasks[t].kind = "wqxr"
    /\ tasks[t].pc = "create"
    /\ \E out \in HttpOutcomes :
         IF FetchThrows(t, out)
         THEN Throw(t, FetchError(t, out), FetchSettled(t, out),
                    TokenAfter(t, out))
         ELSE LET np == IF out = "ok" THEN Playlist(<<t, 1>>) ELSE ErrorBody
              IN  Proceed(t,
                    [tasks[t] EXCEPT !.pc = "append", !.newPlaylist = np,
                                     !.calls = Append(FetchSettled(t, out),
                                         Call("append", Len(tasks[t].uris),
                                              IdOf(np)))],
                    "Adding tracks to the new WQXR playlist...", progress)

\* await spotifyFetch(append) ... to the end of the handler.
WqxrAppendDone(t) ==
    /\ tasks[t].kind = "wqxr"
    /\ tasks[t].pc = "append"
    /\ \E out \in HttpOutcomes :
         IF FetchThrows(t, out)
         THEN Throw(t, FetchError(t, out), FetchSettled(t, out),
                    TokenAfter(t, out))
         ELSE Succeed(t, tasks[t].newPlaylist,
                      "WQXR playlist created successfully!",
                      FetchSettled(t, out))

\* ----------------------------------------------- handleCreateAiPlaylist
totalSongsToRequest == 200
songsPerBatch == 50
chunkSize == 100

\* Math.ceil(a / b) for positive integers.
Ceil(a, b) == (a + b - 1) \div b
numberOfBatches == Ceil(totalSongsToRequest, songsPerBatch)

Min(a, b) == IF a < b THEN a ELSE b

\* What the user typed into a text field: a string of blanks and letters.
FormTexts == {<<>>, <<" ">>, <<"a">>, <<" ", "a">>}

\* String.prototype.trim().
RECURSIVE TrimLeft(_)
TrimLeft(s) ==
    IF s # <<>> /\ Head(s) = " " THEN TrimLeft(Tail(s)) ELSE s
RECURSIVE TrimRight(_)
TrimRight(s) ==
    IF s # <<>> /\ s[Len(s)] = " "
    THEN TrimRight(SubSeq(s, 1, Len(s) - 1))
    ELSE s
Trim(s) == TrimRight(TrimLeft(s))

\* A list that takes every value it is given.
SetAddAlways(seq, x) == Append(seq, x)

\* Set.prototype.add on a Set kept in insertion order.
SetAdd(seq, x) ==
    IF \E k \in 1..Len(seq) : seq[k] = x THEN seq ELSE Append(seq, x)

\* Array.prototype.slice(from, to), with 0-based bounds.
Slice(seq, from, to) == SubSeq(seq, from + 1, Min(to, Len(seq)))

ClickCreateAi ==
    /\ token
    /\ IF isAnyCurationLoading THEN RejectedClick
       ELSE \E customPlaylistName \in FormTexts, aiPrompt \in FormTexts :
            IF Trim(customPlaylistName) = <<>>
            THEN EarlyReturn("", <<"Playlist name cannot be empty.">>,
                             NoPlaylist)
            ELSE IF Trim(aiPrompt) = <<>>
            THEN EarlyReturn("", <<"Please describe the kind of playlist you want.">>,
                             NoPlaylist)
            ELSE IF ~profile
            THEN EarlyReturn("", NoProfile, NoPlaylist)
            ELSE /\ started < MaxTasks
                 /\ Launch("ai",
                           [IdleTask EXCEPT !.kind = "ai", !.pc = "gemini",
                                            !.calls = FirstCall("gemini")],
                           "Asking AI for song ideas...", progress,
                           NoPlaylist, availableGenres)

\* The text of a 2xx answer of the model: no candidate text, text that is
\* not JSON, JSON without songs, or a list of songs (kept as its length).
GeminiBodies ==
    {[shape |-> "empty", length |-> 0], [shape |-> "notJson", length |-> 0]}
        \cup {[shape |-> "songs", length |-> n] : n \in 0..MaxSongs}

\* The top of the batch loop (`for (let i ...)`, also reached by `continue`)
\* for batch b, and what follows the loop.  calls: the log so far.
AiNextBatch(t, b, calls) ==
    IF b < numberOfBatches
    THEN Proceed(t,
           [tasks[t] EXCEPT !.pc = "gemini", !.batch = b,
                            !.calls = IF tasks[t].aborted THEN calls
                                      ELSE Append(calls, Call("gemini", 0, Undefined))],
           "Asking AI for song ideas...", progress)
    ELSE IF tasks[t].uris = <<>>
    THEN Throw(t, Error(<<"Could not find any of the AI-suggested songs on Spotify.">>),
               calls, token)
    ELSE Proceed(t,
           [tasks[t] EXCEPT !.pc = "create", !.batch = b,
                            !.calls = IF tasks[t].aborted THEN calls
                                      ELSE Append(calls, Call("create", 0, Undefined))],
           "Creating playlist...", progress)

\* await fetch(gemini); await json() ... to the first search call of the
\* batch, or to the next batch.
AiGeminiDone(t) ==
    /\ tasks[t].kind = "ai"
    /\ tasks[t].pc = "gemini"
    /\ IF tasks[t].aborted
       THEN Throw(t, AbortError, tasks[t].calls, token)
       ELSE \E out \in {"ok", "fail", "neterr"}, body \in GeminiBodies :
              LET calls == Settle(tasks[t].calls, out) IN
              IF out = "neterr" THEN Throw(t, NetworkError, calls, token)
              ELSE IF out = "fail"
              THEN Throw(t, Error(<<"AI request failed">>), calls, token)
              ELSE IF body.shape = "notJson"
              THEN Throw(t, [name |-> "SyntaxError",
                             message |-> <<"Unexpected token">>], calls, token)
              ELSE IF body.shape = "empty" \/ body.length = 0
              THEN AiNextBatch(t, tasks[t].batch + 1, calls)
              ELSE Proceed(t,
                     [tasks[t] EXCEPT !.pc = "search", !.n = body.length,
                                      !.i = 0,
                                      !.calls = Append(calls, Call("search", 1, Undefined))],
                     "Searching for suggested songs on Spotify...", progress)

\* await spotifyFetch(search); await json() ... await delay(50)
AiSearchDone(t) ==
    /\ tasks[t].kind = "ai"
    /\ tasks[t].pc = "search"
    /\ \E out \in HttpOutcomes, items \in SearchItems :
         IF FetchThrows(t, out)
         THEN Throw(t, FetchError(t, out), FetchSettled(t, out),
                    TokenAfter(t, out))
         ELSE IF out = "fail"
         THEN Throw(t, TypeError(<<"Cannot read properties of undefined (reading 'items')">>),
                    FetchSettled(t, out), token)
         ELSE Proceed(t,
                [tasks[t] EXCEPT !.pc = "searchDelay",
                                 !.uris = IF items = <<>> THEN @
                                          ELSE SetAdd(@, items[1]),
                                 !.calls = Heard(FetchSettled(t, out),
                                                 items)],
                creatorStatus, progress)

\* await delay(50) ... to the next search call, or to the next batch.
AiSearchDelayDone(t) ==
    /\ tasks[t].kind = "ai"
    /\ tasks[t].pc = "searchDelay"
    /\ IF tasks[t].i + 1 < tasks[t].n
       THEN Proceed(t,
              [tasks[t] EXCEPT !.pc = "search", !.i = @ + 1,
                               !.calls = Issue(t, "search", tasks[t].i + 2,
                                               Undefined)],
              creatorStatus, progress)
       ELSE AiNextBatch(t, tasks[t].batch + 1, tasks[t].calls)

\* The chunk the append loop sends at offset off.
AiChunk(t, off) == Slice(tasks[t].uris, off, off + chunkSize)
AiChunkAt(t, off) == [from |-> off, to |-> off + Len(AiChunk(t, off))]

\* await spotifyFetch(create); await json() ... to the first append call.
AiCreateDone(t) ==
    /\ tasks[t].kind = "ai"
    /\ tasks[t].pc = "create"
    /\ \E out \in HttpOutcomes :
         IF FetchThrows(t, out)
         THEN Throw(t, FetchError(t, out), FetchSettled(t, out),
                    TokenAfter(t, out))
         ELSE LET np == IF out = "ok" THEN Playlist(<<t, 1>>) ELSE ErrorBody
              IN  Proceed(t,
                    [tasks[t] EXCEPT !.pc = "append", !.newPlaylist = np,
                                     !.i = 0,
                                     !.calls = Append(FetchSettled(t, out),
                                         AppendCall(AiChunkAt(t, 0),
                                                    IdOf(np)))],
                    "Adding songs to the new playlist...", progress)

\* await spotifyFetch(append) ... await delay(100).  The response is not
\* looked at.
AiAppendDone(t) ==
    /\ tasks[t].kind = "ai"
    /\ tasks[t].pc = "append"
    /\ \E out \in HttpOutcomes :
         IF FetchThrows(t, out)
         THEN Throw(t, FetchError(t, out), FetchSettled(t, out),
                    TokenAfter(t, out))
         ELSE Proceed(t,
                [tasks[t] EXCEPT !.pc = "appendDelay",
                                 !.calls = FetchSettled(t, out)],
                creatorStatus, progress)

\* await delay(100) ... to the next append call, or to the end.
AiAppendDelayDone(t) ==
    /\ tasks[t].kind = "ai"
    /\ tasks[t].pc = "appendDelay"
    /\ LET off == tasks[t].i + chunkSize IN
       IF off < Len(tasks[t].uris)
       THEN Proceed(t,
              [tasks[t] EXCEPT !.pc = "append", !.i = off,
                               !.calls =
                                   IF tasks[t].aborted THEN @
                                   ELSE Append(@,
                                          AppendCall(AiChunkAt(t, off),
                                              IdOf(tasks[t].newPlaylist)))],
              creatorStatus, progress)
       ELSE Succeed(t, tasks[t].newPlaylist,
                    "AI-powered playlist created successfully!",
                    tasks[t].calls)

\* ---------------------------------------- handleCreateTopTracksPlaylist
\* The items of a page of /me/top/tracks: the user's tracks of rank
\* first+1 .. first+n.
TopTrackUri(rank) == TrackUri(ToString(rank))
TopTracksPage(first, n) == [r \in 1..n |-> TopTrackUri(first + r)]

ClickCreateTopTracks ==
    /\ token
    /\ IF isAnyCurationLoading THEN RejectedClick
       ELSE IF ~profile
       THEN EarlyReturn(creatorStatus, NoProfile, createdPlaylist)
       ELSE /\ started < MaxTasks
            /\ Launch("top",
                      [IdleTask EXCEPT !.kind = "top", !.pc = "page1",
                                       !.calls = FirstCall("topTracks")],
                      "Fetching your top 100 tracks (Page 1/2)...",
                      [progress EXCEPT !["topTracks"] = Zero], NoPlaylist,
                      availableGenres)

\* await fetchTopTracksPage(0) ... await delay(100)
TopPage1Done(t) ==
    /\ tasks[t].kind = "top"
    /\ tasks[t].pc = "page1"
    /\ \E out \in HttpOutcomes, n \in 0..MaxTracks :
         IF FetchThrows(t, out)
         THEN Throw(t, FetchError(t, out), FetchSettled(t, out),
                    TokenAfter(t, out))
         ELSE IF out = "fail"
         THEN Throw(t, Error(<<"Failed to fetch top tracks page">>),
                    FetchSettled(t, out), token)
         ELSE Proceed(t,
                [tasks[t] EXCEPT !.pc = "pageDelay",
                                 !.uris = TopTracksPage(0, n),
                                 !.calls = FetchSettled(t, out)],
                creatorStatus,
                [progress EXCEPT !["topTracks"] = Frac(25, 1)])

\* await delay(100) ... to the fetch of the second page.
TopPageDelayDone(t) ==
    /\ tasks[t].kind = "top"
    /\ tasks[t].pc = "pageDelay"
    /\ Proceed(t,
         [tasks[t] EXCEPT !.pc = "page2",
                          !.calls = Issue(t, "topTracks", 0, Undefined)],
         "Fetching your top 100 tracks (Page 2/2)...", progress)

\* await fetchTopTracksPage(50) ... to the create call.
TopPage2Done(t) ==
    /\ tasks[t].kind = "top"
    /\ tasks[t].pc = "page2"
    /\ \E out \in HttpOutcomes, n \in 0..MaxTracks :
         IF FetchThrows(t, out)
         THEN Throw(t, FetchError(t, out), FetchSettled(t, out),
                    TokenAfter(t, out))
         ELSE IF out = "fail"
         THEN Throw(t, Error(<<"Failed to fetch top tracks page">>),
                    FetchSettled(t, out), token)
         ELSE LET topTracks ==
                      tasks[t].uris \o TopTracksPage(Len(tasks[t].uris), n)
              IN  IF topTracks = <<>>
                  THEN Throw(t, Error(<<"Could not find any top tracks. Listen to more music on Spotify!">>),
                             FetchSettled(t, out), token)
                  ELSE Proceed(t,
                         [tasks[t] EXCEPT !.pc = "create",
                                          !.uris = topTracks,
                                          !.calls = Append(FetchSettled(t, out),
                                              Call("create", 0, Undefined))],
                         "Found top tracks. Creating playlist...",
                         [progress EXCEPT !["topTracks"] = Frac(60, 1)])

\* await spotifyFetch(create); await json() ... to the append call.
TopCreateDone(t) ==
    /\ tasks[t].kind = "top"
    /\ tasks[t].pc = "create"
    /\ \E out \in HttpOutcomes :
         IF FetchThrows(t, out)
         THEN Throw(t, FetchError(t, out), FetchSettled(t, out),
                    TokenAfter(t, out))
         ELSE LET np == IF out = "ok" THEN Playlist(<<t, 1>>) ELSE ErrorBody
              IN  Proceed(t,
                    [tasks[t] EXCEPT !.pc = "append", !.newPlaylist = np,
                                     !.calls = Append(FetchSettled(t, out),
                                         Call("append", Len(tasks[t].uris),
                                              IdOf(np)))],
                    "Adding tracks to your new top tracks playlist...",
                    [progress EXCEPT !["topTracks"] = Frac(75, 1)])

\* await spotifyFetch(append) ... to the end of the handler.
TopAppendDone(t) ==
    /\ tasks[t].kind = "top"
    /\ tasks[t].pc = "append"
    /\ \E out \in HttpOutcomes :
         IF FetchThrows(t, out)
         THEN Throw(t, FetchError(t, out), FetchSettled(t, out),
                    TokenAfter(t, out))
         ELSE Succeed(t, tasks[t].newPlaylist,
                      "Top 100 tracks playlist created successfully!",
                      FetchSettled(t, out))

\* ------------------------ fetchUniqueTrackUisAndArtistIdsFromPlaylists
\* A JavaScript value of item.track.uri: missing, not a string, or a string
\* (kept as its colon-separated segments).
NoUri == [type |-> "undefined", segments |-> <<>>]
NumberUri == [type |-> "number", segments |-> <<>>]
StringUri(segs) == [type |-> "string", segments |-> segs]

\* typeof uri === 'string' && uri.startsWith('spotify:track:')
IsTrackUri(uri) ==
    /\ uri.type = "string"
    /\ Len(uri.segments) >= 3
    /\ uri.segments[1] = "spotify"
    /\ uri.segments[2] = "track"

\* An entry of data.items of a track page: item.track is null, or an object
\* with a uri and (for a track) the list of its artists.
NullTrackItem ==
    [track |-> FALSE, uri |-> NoUri, hasArtists |-> FALSE, artists |-> <<>>]
TrackItem(uri, hasArtists, artists) ==
    [track |-> TRUE, uri |-> uri, hasArtists |-> hasArtists,
     artists |-> artists]

ItemShapes ==
    { NullTrackItem,
      TrackItem(NoUri, TRUE, <<"x">>),
      TrackItem(NumberUri, TRUE, <<"x">>),
      TrackItem(StringUri(<<"spotify", "episode", "e">>), FALSE, <<>>),
      TrackItem(StringUri(TrackUri("a")), TRUE, <<"x">>),
      TrackItem(StringUri(TrackUri("b")), TRUE, <<"x", "y">>),
      TrackItem(StringUri(TrackUri("b")), FALSE, <<>>) }

RECURSIVE SeqsUpTo(_, _)
SeqsUpTo(S, n) ==
    IF n = 0 THEN {<<>>}
    ELSE LET shorter == SeqsUpTo(S, n - 1)
         IN  shorter \cup {Append(q, x) : q \in shorter, x \in S}

\* The body of a 2xx track page: data.items missing, or a list of items.
TrackPages ==
    {[hasItems |-> FALSE, items |-> <<>>]}
        \cup {[hasItems |-> TRUE, items |-> q] : q \in SeqsUpTo(ItemShapes, MaxTracks)}

RECURSIVE AddAll(_, _)
AddAll(seq, xs) ==
    IF xs = <<>> THEN seq ELSE AddAll(SetAdd(seq, Head(xs)), Tail(xs))

\* data.items.forEach(item => ...) over a page: the two Sets after the
\* loop, or a TypeError out of it (item.track.artists is read without a
\* test).  acc = [uris, artists, threw].
RECURSIVE ForEachItem(_, _)
ForEachItem(acc, items) ==
    IF items = <<>> \/ acc.threw THEN acc
    ELSE LET item == Head(items) IN
         IF item.track /\ IsTrackUri(item.uri)
         THEN IF item.hasArtists
              THEN ForEachItem([uris |-> SetAdd(acc.uris, item.uri.segments),
                                artists |-> AddAll(acc.artists, item.artists),
                                threw |-> FALSE],
                               Tail(items))
              ELSE [uris |-> SetAdd(acc.uris, item.uri.segments),
                    artists |-> acc.artists, threw |-> TRUE]
         ELSE ForEachItem(acc, Tail(items))

\* The well-formed track URIs of a page, and where they stand on it.
GoodAt(items) ==
    {j \in 1..Len(items) : items[j].track /\ IsTrackUri(items[j].uri)}
GoodUris(items) == {items[k].uri.segments : k \in GoodAt(items)}

\* Some well-formed URI of the page was seen before, on it or earlier.
Repeats(seen, items) ==
    \/ \E k \in GoodAt(items) : items[k].uri.segments \in seen
    \/ \E j, k \in GoodAt(items) :
          j < k /\ items[j].uri.segments = items[k].uri.segments

\* --------------- the callers of the walk, from its return to their next await
SPOTIFY_PLAYLIST_LIMIT == 10000
chunkSizeForAdding == 100
batchSize == 50

numberOfPlaylists(totalSongs) == Ceil(totalSongs, SPOTIFY_PLAYLIST_LIMIT)

\* trackUrisArray is never written after the walk: a slice of it is kept as
\* the range [from, to) of its indices (from 0).
SliceOf(range, from, to) ==
    [from |-> Min(range.from + from, range.to),
     to |-> Min(range.from + to, range.to)]
Size(range) == range.to - range.from

\* trackUrisArray.length: the URIs collected from the pages, and the
\* further tracks of a large library, which are kept as their number.
totalSongs(rec) == Len(rec.uris) + rec.extra
trackUrisArray(rec) == [from |-> 0, to |-> totalSongs(rec)]

\* trackUrisArray.slice(startIdx, endIdx) for part p (from 0).
currentChunkOfTracks(rec, p) ==
    SliceOf(trackUrisArray(rec), p * SPOTIFY_PLAYLIST_LIMIT,
            Min(p * SPOTIFY_PLAYLIST_LIMIT + SPOTIFY_PLAYLIST_LIMIT,
                totalSongs(rec)))

\* A chunk that is one item too long.
AllChunkOneMore(rec, p, i) ==
    SliceOf(currentChunkOfTracks(rec, p), i, i + chunkSizeForAdding + 1)

\* A writer that takes its chunks from the end of the part.
AllChunkFromEnd(rec, p, i) ==
    LET part == currentChunkOfTracks(rec, p)
        rest == Size(part) - i
    IN  SliceOf(part, IF rest > chunkSizeForAdding
                      THEN rest - chunkSizeForAdding ELSE 0, rest)

\* currentChunkOfTracks.slice(i, i + chunkSizeForAdding)
AllChunk(rec, p, i) ==
    SliceOf(currentChunkOfTracks(rec, p), i, i + chunkSizeForAdding)

PartName(p) == <<"All My Playlists Songs - Part ", ToString(p + 1)>>

\* The handler goes on to the create call whatever the walk returned.
AllAfterWalkNoTest(t, rec) ==
    Proceed(t,
      [rec EXCEPT !.pc = "create", !.batch = 0, !.created = <<>>,
                  !.calls = IF rec.aborted THEN @
                            ELSE Append(@, Call("create", 0, Undefined))],
      "Creating playlist...",
      [progress EXCEPT !["allSongs"] = Frac(15, 1)])

\* handleCreateAllSongsPlaylist, lines 1332-1356.
AllAfterWalk(t, rec) ==
    IF totalSongs(rec) = 0
    THEN Throw(t, Error(<<"Could not find any unique songs across your playlists.">>),
               rec.calls, token)
    ELSE Proceed(t,
           [rec EXCEPT !.pc = "create", !.batch = 0, !.created = <<>>,
                       !.calls = IF rec.aborted THEN @
                                 ELSE Append(@, Call("create", 0, Undefined))],
           "Creating playlist...",
           [progress EXCEPT !["allSongs"] = Frac(15, 1)])

\* uniqueArtistIds.slice(i, i + batchSize)
ArtistBatch(artists, i) == Slice(artists, i, i + batchSize)

\* handleFetchAvailableGenres, lines 1425-1435.
ScanAfterWalk(t, rec) ==
    IF rec.artists = <<>>
    THEN Throw(t, Error(<<"Could not find any artists in your playlists to determine genres.">>),
               rec.calls, token)
    ELSE Proceed(t,
           [rec EXCEPT !.pc = "artists", !.i = 0, !.genres = {},
                       !.calls = IF rec.aborted THEN @
                                 ELSE Append(@, Call("artists",
                                        Len(ArtistBatch(rec.artists, 0)),
                                        Undefined))],
           "Found unique artists. Fetching their genres...", progress)

AfterWalk(t, rec) ==
    IF rec.kind = "all" THEN AllAfterWalk(t, rec) ELSE ScanAfterWalk(t, rec)

\* The walk is used by the all-songs handler and by the genre scan.
Walks(t) == tasks[t].kind \in {"all", "scan"}

\* await spotifyFetch(playlists page); await json() ... await delay(50).
\* A page holds up to MaxPlaylists playlists; `more` is data.next.
WalkPlaylistsPageDone(t) ==
    /\ Walks(t)
    /\ tasks[t].pc = "playlistsPage"
    /\ \E out \in HttpOutcomes :
         IF FetchThrows(t, out)
         THEN Throw(t, FetchError(t, out), FetchSettled(t, out),
                    TokenAfter(t, out))
         ELSE IF out = "fail"
         THEN Throw(t, Error(<<"Failed to fetch playlists">>),
                    FetchSettled(t, out), token)
         ELSE \E n \in 0..MaxPlaylists, more \in BOOLEAN :
              /\ more => tasks[t].page + 1 < MaxPages
              /\ Proceed(t,
                   [tasks[t] EXCEPT !.pc = "playlistsDelay",
                                    !.playlists = @ + n,
                                    !.page = IF more THEN @ + 1 ELSE 0,
                                    !.more = more,
                                    !.calls = FetchSettled(t, out)],
                   creatorStatus, progress)

\* playlist.tracks.href of the playlist that is number i of allPlaylists.
Listed(i) == <<i>>

\* The walk asks for the tracks of the same playlist once more.
WalkSamePlaylist(t, rec, pl) ==
    Proceed(t,
      [rec EXCEPT !.pc = "tracksPage", !.page = 0,
                  !.i = IF pl > 1 THEN pl - 1 ELSE 1,
                  !.calls = Append(@, Call("tracks", 0,
                                Listed(IF pl > 1 THEN pl - 1 ELSE 1)))],
      creatorStatus, progress)

\* The head of `for (const playlist of allPlaylists)` for playlist number
\* pl (from 1), and the return of the walk after the last playlist.
\* rec: the handler's state; AfterWalk(t, rec) is what the caller does with
\* the returned lists.
WalkNextPlaylist(t, rec, pl) ==
    IF pl <= rec.playlists
    THEN Proceed(t,
           [rec EXCEPT !.pc = "tracksPage", !.i = pl, !.page = 0,
                       !.calls = IF rec.aborted THEN @
                                 ELSE Append(@, Call("tracks", 0, Listed(pl)))],
           creatorStatus, progress)
    ELSE AfterWalk(t, rec)

\* A walk that returns two empty lists for a library without playlists.
WalkPlaylistsDelayDoneSilent(t) ==
    /\ Walks(t)
    /\ tasks[t].pc = "playlistsDelay"
    /\ IF tasks[t].more
       THEN Proceed(t,
              [tasks[t] EXCEPT !.pc = "playlistsPage",
                               !.calls = Issue(t, "playlists", 0, Undefined)],
              creatorStatus, progress)
       ELSE WalkNextPlaylist(t, tasks[t], 1)

\* await delay(50) ... to the next playlists page, or to the first track
\* page, or out of the walk.
WalkPlaylistsDelayDone(t) ==
    /\ Walks(t)
    /\ tasks[t].pc = "playlistsDelay"
    /\ IF tasks[t].more
       THEN Proceed(t,
              [tasks[t] EXCEPT !.pc = "playlistsPage",
                               !.calls = Issue(t, "playlists", 0, Undefined)],
              creatorStatus, progress)
       ELSE IF tasks[t].playlists = 0
       THEN Throw(t, Error(<<"You have no playlists in your Spotify library.">>),
                  tasks[t].calls, token)
       ELSE WalkNextPlaylist(t, tasks[t], 1)

\* await spotifyFetch(track page); await json() ... await delay(50), or
\* (non-2xx response) `break` to the next playlist.
WalkTracksPageDone(t) ==
    /\ Walks(t)
    /\ tasks[t].pc = "tracksPage"
    /\ \E out \in HttpOutcomes :
         IF FetchThrows(t, out)
         THEN Throw(t, FetchError(t, out), FetchSettled(t, out),
                    TokenAfter(t, out))
         ELSE IF out = "fail"
         THEN WalkNextPlaylist(t,
                [tasks[t] EXCEPT !.calls = FetchSettled(t, out)],
                tasks[t].i + 1)
         ELSE \E body \in TrackPages, more \in BOOLEAN :
              LET acc == ForEachItem([uris |-> tasks[t].uris,
                                      artists |-> tasks[t].artists,
                                      threw |-> FALSE], body.items)
              IN  IF body.hasItems /\ acc.threw
                  THEN Throw(t, TypeError(<<"Cannot read properties of undefined (reading 'forEach')">>),
                             FetchSettled(t, out), token)
                  ELSE /\ more => tasks[t].page + 1 < MaxPages
                       /\ Proceed(t,
                            [tasks[t] EXCEPT
                                !.pc = "tracksDelay",
                                !.uris = IF body.hasItems THEN acc.uris ELSE @,
                                !.artists = IF body.hasItems THEN acc.artists ELSE @,
                                !.sawTracks = IF body.hasItems
                                              THEN @ \cup GoodUris(body.items)
                                              ELSE @,
                                !.skipped = @ \/ (GoodAt(body.items)
                                                    # 1..Len(body.items)),
                                !.repeated = @ \/ (body.hasItems /\
                                    Repeats(tasks[t].sawTracks, body.items)),
                                !.page = IF more THEN @ + 1 ELSE 0,
                                !.more = more,
                                !.calls = FetchSettled(t, out)],
                            creatorStatus, progress)

\* await delay(50) ... to the next track page, or to the next playlist.
WalkTracksDelayDone(t) ==
    /\ Walks(t)
    /\ tasks[t].pc = "tracksDelay"
    /\ IF tasks[t].more
       THEN Proceed(t,
              [tasks[t] EXCEPT !.pc = "tracksPage",
                               !.calls = Issue(t, "tracks", 0,
                                               Listed(tasks[t].i))],
              creatorStatus, progress)
       ELSE WalkNextPlaylist(t, tasks[t], tasks[t].i + 1)

\* ----------------------------------------- handleCreateAllSongsPlaylist
ClickCreateAllSongs ==
    /\ token
    /\ IF isAnyCurationLoading THEN RejectedClick
       ELSE IF ~profile
       THEN EarlyReturn(creatorStatus, NoProfile, createdPlaylist)
       ELSE /\ started < MaxTasks
            /\ Launch("all",
                      [IdleTask EXCEPT !.kind = "all", !.pc = "playlistsPage",
                                       !.calls = FirstCall("playlists")],
                      "Fetching all your playlists (0-15%)...",
                      [progress EXCEPT !["allSongs"] = Zero], NoPlaylist,
                      availableGenres)

\* await spotifyFetch(create); await json() ... to the first append call of
\* the part.
AllCreateDone(t) ==
    /\ tasks[t].kind = "all"
    /\ tasks[t].pc = "create"
    /\ \E out \in HttpOutcomes :
         IF FetchThrows(t, out)
         THEN Throw(t, FetchError(t, out), FetchSettled(t, out),
                    TokenAfter(t, out))
         ELSE IF out = "fail"
         THEN Throw(t, Error(<<"Failed to create playlist ">>
                                 \o PartName(tasks[t].batch)),
                    FetchSettled(t, out), token)
         ELSE LET p == tasks[t].batch
                  np == Playlist(<<t, p + 1>>)
              IN  Proceed(t,
                    [tasks[t] EXCEPT
                        !.pc = "append", !.newPlaylist = np, !.i = 0,
                        !.created = Append(@, np),
                        !.calls = Append(FetchSettled(t, out),
                            AppendCall(AllChunk(tasks[t], p, 0), IdOf(np)))],
                    "Adding songs...", progress)

\* await spotifyFetch(append) ... await delay(50)
AllAppendDone(t) ==
    /\ tasks[t].kind = "all"
    /\ tasks[t].pc = "append"
    /\ \E out \in HttpOutcomes :
         IF FetchThrows(t, out)
         THEN Throw(t, FetchError(t, out), FetchSettled(t, out),
                    TokenAfter(t, out))
         ELSE IF out = "fail"
         THEN Throw(t, Error(<<"Failed to add tracks to playlist ">>
                                 \o PartName(tasks[t].batch)),
                    FetchSettled(t, out), token)
         ELSE LET p == tasks[t].batch
                  chunk == AllChunk(tasks[t], p, tasks[t].i)
                  currentOverallProgress ==
                      p * SPOTIFY_PLAYLIST_LIMIT + tasks[t].i + Size(chunk)
              IN  Proceed(t,
                    [tasks[t] EXCEPT !.pc = "appendDelay",
                                     !.calls = FetchSettled(t, out)],
                    creatorStatus,
                    [progress EXCEPT !["allSongs"] =
                        Frac(currentOverallProgress * 90
                                 + 10 * totalSongs(tasks[t]),
                             totalSongs(tasks[t]))])

\* A writer that sends one chunk to a collection and goes on.
AllAppendDelayDoneOneChunk(t) ==
    /\ tasks[t].kind = "all"
    /\ tasks[t].pc = "appendDelay"
    /\ LET p == tasks[t].batch
       IN  IF p + 1 < numberOfPlaylists(totalSongs(tasks[t]))
           THEN Proceed(t,
                  [tasks[t] EXCEPT !.pc = "create", !.batch = p + 1,
                                   !.calls = Issue(t, "create", 0, Undefined)],
                  "Creating playlist...", progress)
           ELSE Succeed(t, tasks[t].created[1],
                        "Successfully created playlist(s)!", tasks[t].calls)

\* await delay(50) ... to the next append call, to the create call of the
\* next part, or to the end of the handler.
AllAppendDelayDone(t) ==
    /\ tasks[t].kind = "all"
    /\ tasks[t].pc = "appendDelay"
    /\ LET p == tasks[t].batch
           i == tasks[t].i + chunkSizeForAdding
       IN  IF i < Size(currentChunkOfTracks(tasks[t], p))
           THEN Proceed(t,
                  [tasks[t] EXCEPT !.pc = "append", !.i = i,
                                   !.calls =
                                       IF tasks[t].aborted THEN @
                                       ELSE Append(@,
                                              AppendCall(AllChunk(tasks[t], p, i),
                                                  IdOf(tasks[t].newPlaylist)))],
                  creatorStatus, progress)
           ELSE IF p + 1 < numberOfPlaylists(totalSongs(tasks[t]))
           THEN Proceed(t,
                  [tasks[t] EXCEPT !.pc = "create", !.batch = p + 1,
                                   !.calls = Issue(t, "create", 0, Undefined)],
                  "Creating playlist...", progress)
           ELSE Succeed(t, tasks[t].created[1],
                        "Successfully created playlist(s)!", tasks[t].calls)

\* --------------------------------------------- handleFetchAvailableGenres
Genres == 1..MaxGenres

\* Array.from(set).sort(): genre k stands for the k-th name in sort order.
RECURSIVE SortedList(_)
SortedList(S) ==
    IF S = {} THEN <<>>
    ELSE LET least == CHOOSE x \in S : \A y \in S : x <= y
         IN  <<least>> \o SortedList(S \ {least})

ClickFetchAvailableGenres ==
    /\ token
    /\ IF isAnyCurationLoading THEN RejectedClick
       ELSE IF ~profile
       THEN EarlyReturn(creatorStatus, NoProfile, createdPlaylist)
       ELSE /\ started < MaxTasks
            /\ Launch("scan",
                      [IdleTask EXCEPT !.kind = "scan", !.pc = "playlistsPage",
                                       !.calls = FirstCall("playlists")],
                      "Scanning your library for genres...",
                      [progress EXCEPT !["genreFusion"] = Zero],
                      createdPlaylist, <<>>)

\* The end of the try block of the scan, and its finally block.
ScanFinish(t, genres, calls) ==
    /\ availableGenres' = SortedList(genres)
    /\ creatorStatus' = "Found unique genres. Select 1 to 3 genres to create a fusion playlist."
    /\ Finally(t, "Succeeded", calls)
    /\ UNCHANGED <<creatorError, createdPlaylist, libraryVersion, token,
                   selectedGenres>>

\* The head of the artist-batch loop at offset i, and what follows the loop.
ScanNextBatch(t, rec, i) ==
    IF i < Len(rec.artists)
    THEN Proceed(t,
           [rec EXCEPT !.pc = "artists", !.i = i,
                       !.calls = IF rec.aborted THEN @
                                 ELSE Append(@, Call("artists",
                                        Len(ArtistBatch(rec.artists, i)),
                                        Undefined))],
           creatorStatus, progress)
    ELSE ScanFinish(t, rec.genres, rec.calls)

\* await spotifyFetch(artists); await json() ... await delay(50), or
\* (non-2xx response) `continue` to the next batch.
ScanArtistsDone(t) ==
    /\ tasks[t].kind = "scan"
    /\ tasks[t].pc = "artists"
    /\ \E out \in HttpOutcomes, found \in SUBSET Genres :
         IF FetchThrows(t, out)
         THEN Throw(t, FetchError(t, out), FetchSettled(t, out),
                    TokenAfter(t, out))
         ELSE IF out = "fail"
         THEN ScanNextBatch(t,
                [tasks[t] EXCEPT !.calls = FetchSettled(t, out)],
                tasks[t].i + batchSize)
         ELSE Proceed(t,
                [tasks[t] EXCEPT !.pc = "artistsDelay",
                                 !.genres = @ \cup found,
                                 !.calls = FetchSettled(t, out)],
                creatorStatus,
                [progress EXCEPT !["genreFusion"] =
                    Frac(tasks[t].i * 100, Len(tasks[t].artists))])

\* await delay(50) ... to the next batch, or to the end of the handler.
ScanArtistsDelayDone(t) ==
    /\ tasks[t].kind = "scan"
    /\ tasks[t].pc = "artistsDelay"
    /\ ScanNextBatch(t, tasks[t], tasks[t].i + batchSize)

\* --------------------------- handleGenreSelect (PlaylistCreator, 2227-2231)
Includes(list, x) == \E k \in 1..Len(list) : list[k] = x
Without(list, x) == SelectSeq(list, LAMBDA g : g # x)

Toggle(prev, genre) ==
    IF Includes(prev, genre) THEN Without(prev, genre)
    ELSE IF Len(prev) < 3 THEN Append(prev, genre) ELSE prev

\* The genre buttons are shown when availableGenres is not empty and no
\* scan or fusion is loading; a button is disabled when its genre is not
\* selected and three genres are.
ClickGenre(genre) ==
    /\ token
    /\ availableGenres # <<>>
    /\ ~isLoading["genreFusion"]
    /\ Includes(availableGenres, genre)
    /\ ~(~Includes(selectedGenres, genre) /\ Len(selectedGenres) >= 3)
    /\ selectedGenres' = Toggle(selectedGenres, genre)
    /\ clickRejected' = FALSE
    /\ UNCHANGED <<token, profile, creatorStatus, creatorError,
                   createdPlaylist, libraryVersion, isLoading, progress,
                   abortController, availableGenres, tasks, started, proxy, cacheVars, last>>

\* ------------------------------------------ handleCreateGenreFusionPlaylist
totalSeeds == 5

\* The button is rendered below the genre list when a genre is selected.
ClickCreateGenreFusion ==
    /\ token
    /\ availableGenres # <<>>
    /\ ~isLoading["genreFusion"]
    /\ Len(selectedGenres) > 0
    /\ IF \/ isAnyCurationLoading
          \/ Len(selectedGenres) < 1
          \/ Len(selectedGenres) > 3
       THEN RejectedClick
       ELSE \E genreFusionName \in FormTexts :
            IF Len(selectedGenres) < 1 \/ Len(selectedGenres) > 3
            THEN EarlyReturn(creatorStatus,
                             <<"Please select between 1 and 3 genres.">>,
                             createdPlaylist)
            ELSE IF Trim(genreFusionName) = <<>>
            THEN EarlyReturn(creatorStatus,
                             <<"Please enter a name for your fusion playlist.">>,
                             createdPlaylist)
            ELSE /\ started < MaxTasks
                 /\ Launch("fusion",
                           [IdleTask EXCEPT !.kind = "fusion",
                                            !.pc = "topArtists",
                                            !.calls = FirstCall("topArtists")],
                           "Finding seed artists and tracks from your library...",
                           progress, createdPlaylist, availableGenres)

\* await spotifyFetch(top artists) ... to the fetch of the top tracks.  The
\* response is looked at after both fetches: `more` keeps response.ok and n
\* the number of artists in it.
FusionTopArtistsAnswer(t, out, n) ==
    /\ tasks[t].kind = "fusion"
    /\ tasks[t].pc = "topArtists"
    /\ IF FetchThrows(t, out)
       THEN Throw(t, FetchError(t, out), FetchSettled(t, out),
                  TokenAfter(t, out))
       ELSE Proceed(t,
              [tasks[t] EXCEPT !.pc = "topTracks", !.more = (out = "ok"),
                               !.n = IF out = "ok" THEN n ELSE 0,
                               !.calls = Append(FetchSettled(t, out),
                                   Call("topTracks", 0, Undefined))],
              creatorStatus, progress)

FusionTopArtistsDone(t) ==
    \E out \in HttpOutcomes, n \in 0..MaxTracks :
        FusionTopArtistsAnswer(t, out, n)

\* Seed lists that are each cut to totalSeeds entries on their own.
SeedsEachUpToTotal(genres, seedArtists, seedTracks) ==
    [genres |-> Min(genres, totalSeeds),
     artists |-> Min(seedArtists, totalSeeds),
     tracks |-> Min(seedTracks, totalSeeds)]

\* The three seed lists of the recommendation request.
Seeds(genres, seedArtists, seedTracks) ==
    LET genresToUse == Min(genres, totalSeeds)
        artistsToUse == Min(seedArtists, totalSeeds - genresToUse)
        tracksToUse ==
            Min(seedTracks, totalSeeds - (genresToUse + artistsToUse))
    IN  [genres |-> genresToUse, artists |-> artistsToUse,
         tracks |-> tracksToUse]

\* await spotifyFetch(top tracks); json() of both ... to the
\* recommendation request.  n is the number of top tracks, kept in i.
FusionTopTracksAnswer(t, out, n) ==
    /\ tasks[t].kind = "fusion"
    /\ tasks[t].pc = "topTracks"
    /\ IF FetchThrows(t, out)
       THEN Throw(t, FetchError(t, out), FetchSettled(t, out),
                  TokenAfter(t, out))
       ELSE IF ~tasks[t].more \/ out = "fail"
       THEN Throw(t, Error(<<"Could not fetch seed data from your library.">>),
                  FetchSettled(t, out), token)
       ELSE LET seeds == Seeds(Len(selectedGenres), tasks[t].n, n)
            IN  Proceed(t,
                  [tasks[t] EXCEPT !.pc = "recs", !.i = n,
                                   !.calls = Append(FetchSettled(t, out),
                                       Call("recommendations",
                                            seeds.genres + seeds.artists
                                                + seeds.tracks,
                                            Undefined))],
                  "Getting recommendations from Spotify...", progress)

FusionTopTracksDone(t) ==
    \E out \in HttpOutcomes, n \in 0..MaxTracks :
        FusionTopTracksAnswer(t, out, n)

\* The tracks of a recommendation response.
RecommendedUris(n) == [r \in 1..n |-> TrackUri(ToString(r))]

\* await spotifyFetch(recommendations); await json() ... to the create call.
FusionRecsDone(t) ==
    /\ tasks[t].kind = "fusion"
    /\ tasks[t].pc = "recs"
    /\ \E out \in HttpOutcomes, n \in 0..MaxTracks :
         IF FetchThrows(t, out)
         THEN Throw(t, FetchError(t, out), FetchSettled(t, out),
                    TokenAfter(t, out))
         ELSE IF out = "fail"
         THEN Throw(t, Error(<<"Failed to get recommendations">>),
                    FetchSettled(t, out), token)
         ELSE IF n = 0
         THEN Throw(t, Error(<<"Couldn't find any tracks for that genre combination. Try a different fusion!">>),
                    FetchSettled(t, out), token)
         ELSE Proceed(t,
                [tasks[t] EXCEPT !.pc = "create",
                                 !.uris = RecommendedUris(n),
                                 !.calls = Append(FetchSettled(t, out),
                                     Call("create", 0, Undefined))],
                "Creating playlist...", progress)

\* await spotifyFetch(create); await json() ... to the append call.
FusionCreateDone(t) ==
    /\ tasks[t].kind = "fusion"
    /\ tasks[t].pc = "create"
    /\ \E out \in HttpOutcomes :
         IF FetchThrows(t, out)
         THEN Throw(t, FetchError(t, out), FetchSettled(t, out),
                    TokenAfter(t, out))
         ELSE LET np == IF out = "ok" THEN Playlist(<<t, 1>>) ELSE ErrorBody
              IN  Proceed(t,
                    [tasks[t] EXCEPT !.pc = "append", !.newPlaylist = np,
                                     !.calls = Append(FetchSettled(t, out),
                                         Call("append", Len(tasks[t].uris),
                                              IdOf(np)))],
                    creatorStatus, progress)

\* await spotifyFetch(append) ... to the end of the handler.
FusionAppendDone(t) ==
    /\ tasks[t].kind = "fusion"
    /\ tasks[t].pc = "append"
    /\ \E out \in HttpOutcomes :
         IF FetchThrows(t, out)
         THEN Throw(t, FetchError(t, out), FetchSettled(t, out),
                    TokenAfter(t, out))
         ELSE /\ createdPlaylist' = tasks[t].newPlaylist
              /\ creatorStatus' = "Genre Fusion playlist created successfully!"
              /\ libraryVersion' = libraryVersion + 1
              /\ selectedGenres' = <<>>
              /\ Finally(t, "Succeeded", FetchSettled(t, out))
              /\ UNCHANGED <<creatorError, token, availableGenres>>

\* --------------------------------------- spotify-proxy-server/server.js
\* The proxy serves GET /wqxr-playlist.  Each connection carries at most
\* one request; its handler is cut at `await axios.get(url)`.
Connections == {"c1", "c2"}
MaxItems == 2

\* req.query.year, .month, .day: a missing parameter is undefined, and
\* `year=` is the empty string.
Years == {Undefined, "", "2024", "2025"}
Months == {Undefined, "", "jun"}
Days == {Undefined, "12"}
Queries == [year : Years, month : Months, day : Days]

\* A test that takes the empty string for a value.
NotMissing(v) == v = Undefined

\* !v for a query parameter.
Not(v) == v = Undefined \/ v = ""

\* The URL the handler fetches, as its path segments (line 23).
url ==
    <<"https://wqxr-legacy.prod.nypr.digital/playlist-daily",
      "2025", "jun", "12", "?scheduleStation=q2">>

\* What .find(selector).text() gives for the title and the musicians of a
\* .playlist-item element: '' when the element is missing.
Titles == {<<>>, <<" ", "A", " ">>, <<"B">>}
Musicians == {<<" ">>, <<"M">>}
PlaylistItem(title, musicians) == [title |-> title, musicians |-> musicians]
PlaylistItems == {PlaylistItem(ti, mu) : ti \in Titles, mu \in Musicians}

\* A page with three well-formed items and one without a performer.
FixturePage ==
    << PlaylistItem(<<"B">>, <<"M">>),
       PlaylistItem(<<" ", "A", " ">>, <<"M">>),
       PlaylistItem(<<"B">>, <<>>),
       PlaylistItem(<<"B">>, <<"M">>) >>

\* The outcomes of axios.get(url) and cheerio.load(data): a rejected
\* promise (network error, non-2xx status), a throw while parsing, or the
\* .playlist-item elements of the page.
Failures == {"neterr", "status", "throws"}
Upstreams ==
    [kind : Failures, items : {<<>>}]
        \cup [kind : {"page"},
              items : SeqsUpTo(PlaylistItems, MaxItems) \cup {FixturePage}]

\* The response of the handler.
NoBody == [kind |-> "none", error |-> "", tracks |-> <<>>]
ErrorJson(msg) == [kind |-> "error", error |-> msg, tracks |-> <<>>]
TracksJson(list) == [kind |-> "tracks", error |-> "", tracks |-> list]

NoRequest ==
    [pc |-> "idle", query |-> [year |-> Undefined, month |-> Undefined,
                               day |-> Undefined],
     fetched |-> <<>>, upstream |-> [kind |-> "none", items |-> <<>>],
     status |-> 0, body |-> NoBody]
NoRequests == [c \in Connections |-> NoRequest]

\* A step of the handler of connection c; the application is not involved.
Handle(c, req) ==
    /\ proxy' = [proxy EXCEPT ![c] = req]
    /\ UNCHANGED <<token, profile, creatorStatus, creatorError,
                   createdPlaylist, libraryVersion, isLoading, progress,
                   abortController, availableGenres, selectedGenres, tasks,
                   started, clickRejected, last, cacheVars>>

\* res.status(status).json(body)
Respond(c, req, status, body) ==
    Handle(c, [req EXCEPT !.pc = "done", !.status = status, !.body = body])

\* A scraper that keeps every item of the page.
tracksOfEveryItem(items) ==
    [k \in 1..Len(items) |->
        [title |-> Trim(items[k].title),
         composer |-> Trim(items[k].musicians)]]

\* $('.playlist-item').each(...): the tracks array after the loop.
RECURSIVE tracks(_)
tracks(items) ==
    IF items = <<>> THEN <<>>
    ELSE LET title == Trim(Head(items).title)
             composer == Trim(Head(items).musicians)
         IN  IF title # <<>> /\ composer # <<>>
             THEN <<[title |-> title, composer |-> composer]>>
                      \o tracks(Tail(items))
             ELSE tracks(Tail(items))

\* app.get('/wqxr-playlist', ...) for a request with this query string, up
\* to the 400 response or to the await.
ProxyRequest(c, query) ==
    LET req == [proxy[c] EXCEPT !.query = query] IN
    IF Not(query.year) \/ Not(query.month) \/ Not(query.day)
    THEN Respond(c, req, 400,
                 ErrorJson("Missing required date parameters (year, month, day)."))
    ELSE Handle(c, [req EXCEPT !.pc = "fetching",
                               !.fetched = Append(@, url)])

\* A request of any client arrives on connection c.
ProxyGet(c) ==
    /\ proxy[c].pc = "idle"
    /\ \E query \in Queries : ProxyRequest(c, query)

\* A handler that fetches the page again when the fetch has failed.
ProxyAxiosDoneRetry(c) ==
    /\ proxy[c].pc = "fetching"
    /\ \E up \in Upstreams :
         LET req == [proxy[c] EXCEPT !.upstream = up] IN
         IF up.kind \in Failures
         THEN Handle(c, [req EXCEPT !.fetched = Append(@, url)])
         ELSE Respond(c, req, 200, TracksJson(tracks(up.items)))

\* await axios.get(url) ... to the 200 response, or the catch block.
ProxyAxiosDone(c) ==
    /\ proxy[c].pc = "fetching"
    /\ \E up \in Upstreams :
         LET req == [proxy[c] EXCEPT !.upstream = up] IN
         IF up.kind \in Failures
         THEN Respond(c, req, 500,
                      ErrorJson("Failed to fetch playlist data from WQXR."))
         ELSE Respond(c, req, 200, TracksJson(tracks(up.items)))

\* ------------------------------------------------------- useSpotifyApi
\* The hook useSpotifyApi(url) and the cache it keeps in localStorage under
\* the URL.  An answer of the API is kept as the URL it answers and the
\* access token it was given to; time is counted in steps of one minute.
Tokens == {"tokenA", "tokenB"}
Urls == {"/me", "/me/top/artists?limit=5"}
Minute == 60 * 1000
CACHE_DURATION_MS == 5 * 60 * 1000
MaxMinutes == 6

NoData == [url |-> "none", of |-> "none"]
Answer(endpoint, tok) == [url |-> endpoint, of |-> tok]

\* JSON.stringify({ data: result, timestamp: Date.now() }), with a note
\* of the token App held when the item was stored ("none" without one).
NoEntry == [kind |-> "none", data |-> NoData, timestamp |-> 0,
            during |-> "none"]
Entry(data, timestamp) ==
    [kind |-> "entry", data |-> data, timestamp |-> timestamp,
     during |-> IF token THEN bearer ELSE "none"]

\* An instance of the hook: its effect's position ("none" without an
\* instance), isMounted, the hook's state, the token its request in
\* flight was sent with, and the stored item its data was read from.
NoHook == [pc |-> "none", isMounted |-> FALSE, data |-> NoData,
           error |-> FALSE, loading |-> FALSE, sent |-> "none",
           from |-> NoEntry]

NoCache ==
    /\ bearer = "tokenA"
    /\ now = 0
    /\ localStorage = [u \in Urls |-> NoEntry]
    /\ hooks = [u \in Urls |-> NoHook]

\* The rest of the application's state.
appVars == <<profile, creatorStatus, creatorError, createdPlaylist,
             libraryVersion, isLoading, progress, abortController,
             availableGenres, selectedGenres, tasks, started, clickRejected,
             last, proxy>>

\* The views are not rendered without a token: the cleanup of every
\* mounted effect runs, and a request in flight goes on without it.
Unrendered(hs) ==
    [u \in Urls |-> IF hs[u].pc = "fetching"
                    THEN [hs[u] EXCEPT !.isMounted = FALSE]
                    ELSE NoHook]

\* The token exchange has answered: setToken(access_token).
Login(tok) ==
    /\ ~token
    /\ token' = TRUE
    /\ bearer' = tok
    /\ UNCHANGED <<now, localStorage, hooks, appVars>>

\* logout(): the token and the three items of the login are removed; the
\* items stored under URLs stay.
logout ==
    /\ token
    /\ token' = FALSE
    /\ hooks' = Unrendered(hooks)
    /\ UNCHANGED <<bearer, now, localStorage, appVars>>

\* A component that calls useSpotifyApi(url) is mounted and the effect
\* runs fetchData() up to its first await: a cached item younger than
\* CACHE_DURATION_MS is served, an older one is removed, and without a
\* served item spotifyFetch(url) is called.
Mount(endpoint) ==
    /\ token
    /\ hooks[endpoint].pc = "none"
    /\ LET cachedData == localStorage[endpoint] IN
       IF /\ cachedData.kind = "entry"
          /\ now - cachedData.timestamp < CACHE_DURATION_MS
       THEN /\ hooks' = [hooks EXCEPT ![endpoint] =
                           [NoHook EXCEPT !.pc = "done", !.isMounted = TRUE,
                                          !.data = cachedData.data,
                                          !.from = cachedData]]
            /\ UNCHANGED localStorage
       ELSE /\ localStorage' = [localStorage EXCEPT ![endpoint] = NoEntry]
            /\ hooks' = [hooks EXCEPT ![endpoint] =
                           [NoHook EXCEPT !.pc = "fetching",
                                          !.isMounted = TRUE,
                                          !.loading = TRUE, !.sent = bearer]]
    /\ UNCHANGED <<token, bearer, now, appVars>>

\* The cleanup of the effect: isMounted = false.
Unmount(endpoint) ==
    /\ hooks[endpoint].isMounted
    /\ hooks' = [hooks EXCEPT ![endpoint] =
                    IF @.pc = "fetching" THEN [@ EXCEPT !.isMounted = FALSE]
                    ELSE NoHook]
    /\ UNCHANGED <<token, bearer, now, localStorage, appVars>>

\* The end of a request of the hook: the instance, mounted or not.
Settled(h, data, error) ==
    IF h.isMounted
    THEN [h EXCEPT !.pc = "done", !.data = data, !.error = error,
                   !.loading = FALSE, !.sent = "none"]
    ELSE NoHook

\* await spotifyFetch(url) ... to the end of fetchData(): the answer is
\* stored under the URL whether the hook is still mounted or not; a 401
\* runs logout() inside spotifyFetch.
FetchDone(endpoint) ==
    /\ hooks[endpoint].pc = "fetching"
    /\ \E out \in HttpOutcomes :
         LET h == hooks[endpoint] IN
         IF out = "ok"
         THEN /\ localStorage' = [localStorage EXCEPT ![endpoint] =
                                     Entry(Answer(endpoint, h.sent), now)]
              /\ hooks' = [hooks EXCEPT ![endpoint] =
                              Settled(h, Answer(endpoint, h.sent), FALSE)]
              /\ UNCHANGED token
         ELSE IF out = "unauth"
         THEN /\ token' = FALSE
              /\ hooks' = Unrendered([hooks EXCEPT ![endpoint] = NoHook])
              /\ UNCHANGED localStorage
         ELSE /\ hooks' = [hooks EXCEPT ![endpoint] = Settled(h, NoData, TRUE)]
              /\ UNCHANGED <<token, localStorage>>
    /\ UNCHANGED <<bearer, now, appVars>>

\* A minute passes.
Tick ==
    /\ now < MaxMinutes * Minute
    /\ now' = now + Minute
    /\ UNCHANGED <<token, bearer, localStorage, hooks, appVars>>

\* ------------------------------------------------------- specification
Init ==
    /\ token = TRUE
    /\ profile = FALSE
    /\ creatorStatus = ""
    /\ creatorError = <<>>
    /\ createdPlaylist = NoPlaylist
    /\ libraryVersion = 0
    /\ isLoading = [f \in Flags |-> FALSE]
    /\ progress = [f \in ProgressFlags |-> Zero]
    /\ abortController = [f \in Flags |-> NoController]
    /\ availableGenres = <<>>
    /\ selectedGenres = <<>>
    /\ tasks = [t \in TaskIds |-> IdleTask]
    /\ started = 0
    /\ proxy = NoRequests
    /\ NoCache
    /\ clickRejected = FALSE
    /\ last = NoLast

Next ==
    \/ SetProfile
    \/ ClickCreateWQXR
    \/ \E f \in Flags : Cancel(f)
    \/ \E t \in TaskIds : WqxrProxyDone(t)
    \/ \E t \in TaskIds : WqxrSearchDone(t)
    \/ \E t \in TaskIds : WqxrSearchDelayDone(t)
    \/ \E t \in TaskIds : WqxrCreateDone(t)
    \/ \E t \in TaskIds : WqxrAppendDone(t)
    \/ ClickCreateAi
    \/ \E t \in TaskIds : AiGeminiDone(t)
    \/ \E t \in TaskIds : AiSearchDone(t)
    \/ \E t \in TaskIds : AiSearchDelayDone(t)
    \/ \E t \in TaskIds : AiCreateDone(t)
    \/ \E t \in TaskIds : AiAppendDone(t)
    \/ \E t \in TaskIds : AiAppendDelayDone(t)
    \/ ClickCreateTopTracks
    \/ \E t \in TaskIds : TopPage1Done(t)
    \/ \E t \in TaskIds : TopPageDelayDone(t)
    \/ \E t \in TaskIds : TopPage2Done(t)
    \/ \E t \in TaskIds : TopCreateDone(t)
    \/ \E t \in TaskIds : TopAppendDone(t)
    \/ \E t \in TaskIds : WalkPlaylistsPageDone(t)
    \/ \E t \in TaskIds : WalkPlaylistsDelayDone(t)
    \/ \E t \in TaskIds : WalkTracksPageDone(t)
    \/ \E t \in TaskIds : WalkTracksDelayDone(t)
    \/ ClickCreateAllSongs
    \/ \E t \in TaskIds : AllCreateDone(t)
    \/ \E t \in TaskIds : AllAppendDone(t)
    \/ \E t \in TaskIds : AllAppendDelayDone(t)
    \/ ClickFetchAvailableGenres
    \/ \E t \in TaskIds : ScanArtistsDone(t)
    \/ \E t \in TaskIds : ScanArtistsDelayDone(t)
    \/ \E g \in Genres : ClickGenre(g)
    \/ ClickCreateGenreFusion
    \/ \E t \in TaskIds : FusionTopArtistsDone(t)
    \/ \E t \in TaskIds : FusionTopTracksDone(t)
    \/ \E t \in TaskIds : FusionRecsDone(t)
    \/ \E t \in TaskIds : FusionCreateDone(t)
    \/ \E t \in TaskIds : FusionAppendDone(t)

Spec == Init /\ [][Next]_vars

\* ------------------------------------------- the batch-writing stage alone
LibrarySize == 25000

\* Numbers of unique songs around the chunk size and the playlist limit.
BatchSizes ==
    {1, chunkSizeForAdding, chunkSizeForAdding + 1, SPOTIFY_PLAYLIST_LIMIT,
     SPOTIFY_PLAYLIST_LIMIT + 1, LibrarySize}

\* handleCreateAllSongsPlaylist at its first create call: the walk has
\* returned n unique track URIs (lines 1331-1356).
InitBatch ==
    \E n \in BatchSizes :
        /\ token = TRUE
        /\ profile = TRUE
        /\ creatorStatus = "Creating playlist..."
        /\ creatorError = <<>>
        /\ createdPlaylist = NoPlaylist
        /\ libraryVersion = 0
        /\ isLoading = [f \in Flags |-> f = "allSongs"]
        /\ progress = [f \in ProgressFlags |->
                          IF f = "allSongs" THEN Frac(15, 1) ELSE Zero]
        /\ abortController = [f \in Flags |->
                                 IF f = "allSongs" THEN 1 ELSE NoController]
        /\ availableGenres = <<>>
        /\ selectedGenres = <<>>
        /\ tasks = [t \in TaskIds |->
                       IF t = 1
                       THEN [IdleTask EXCEPT
                               !.kind = "all", !.pc = "create",
                               !.playlists = 1,
                               !.extra = n,
                               !.calls = <<[Call("playlists", 0, Undefined)
                                               EXCEPT !.st = "ok"],
                                           [Call("tracks", 0, Listed(1))
                                               EXCEPT !.st = "ok"],
                                           Call("create", 0, Undefined)>>]
                       ELSE IdleTask]
        /\ started = 1
        /\ proxy = NoRequests
        /\ NoCache
        /\ clickRejected = FALSE
        /\ last = NoLast

NextBatch ==
    \/ \E t \in TaskIds : AllCreateDone(t)
    \/ \E t \in TaskIds : AllAppendDone(t)
    \/ \E t \in TaskIds : AllAppendDelayDone(t)

SpecBatch == InitBatch /\ [][NextBatch]_vars

\* ------------------------------------------------------------------
\* The library walk on its own: the all-songs handler has just been
\* started and is waiting for its first playlists page; the steps are those
\* of fetchUniqueTrackUisAndArtistIdsFromPlaylists up to its return.
InitWalk ==
    /\ token = TRUE
    /\ profile = TRUE
    /\ creatorStatus = "Fetching all your playlists (0-15%)..."
    /\ creatorError = <<>>
    /\ createdPlaylist = NoPlaylist
    /\ libraryVersion = 0
    /\ isLoading = [f \in Flags |-> f = "allSongs"]
    /\ progress = [f \in ProgressFlags |-> Zero]
    /\ abortController = [f \in Flags |->
                             IF f = "allSongs" THEN 1 ELSE NoController]
    /\ availableGenres = <<>>
    /\ selectedGenres = <<>>
    /\ tasks = [t \in TaskIds |->
                   IF t = 1
                   THEN [IdleTask EXCEPT !.kind = "all",
                                         !.pc = "playlistsPage",
                                         !.calls = FirstCall("playlists")]
                   ELSE IdleTask]
    /\ started = 1
    /\ proxy = NoRequests
    /\ NoCache
    /\ clickRejected = FALSE
    /\ last = NoLast

NextWalk ==
    \/ \E t \in TaskIds : WalkPlaylistsPageDone(t)
    \/ \E t \in TaskIds : WalkPlaylistsDelayDone(t)
    \/ \E t \in TaskIds : WalkTracksPageDone(t)
    \/ \E t \in TaskIds : WalkTracksDelayDone(t)

SpecWalk == InitWalk /\ [][NextWalk]_vars

\* The proxy server on its own.
NextProxy ==
    \/ \E c \in Connections : ProxyGet(c)
    \/ \E c \in Connections : ProxyAxiosDone(c)

SpecProxy == Init /\ [][NextProxy]_vars

\* ------------------------------------------------------------------
\* The WQXR handler together with a running proxy: the fetch of line 1024
\* is a request to the proxy, and its response is what the proxy answers.
\* The request of the handler that holds controller t goes over its own
\* connection.
Served(t) == t <= Cardinality(Connections)
ConnectionOf(t) == IF t = 1 THEN "c1" ELSE "c2"

\* getYesterdayDateParts(): the year, the short month name and the padded
\* day of yesterday, none of them empty.
YesterdayDateParts ==
    {q \in Queries : q.year \notin {Undefined, ""}
                     /\ q.month \notin {Undefined, ""}
                     /\ q.day \notin {Undefined, ""}}

\* fetch(`http://localhost:3001/wqxr-playlist?year=..&month=..&day=..`)
\* arrives at the proxy.
WqxrRequest(t) ==
    /\ tasks[t].kind = "wqxr"
    /\ tasks[t].pc = "proxy"
    /\ ~tasks[t].aborted
    /\ Served(t)
    /\ proxy[ConnectionOf(t)].pc = "idle"
    /\ \E query \in YesterdayDateParts : ProxyRequest(ConnectionOf(t), query)

\* await fetch(proxy); await json() ... to the first search call, for the
\* response of the proxy (or for an aborted signal).
WqxrProxyAnswered(t) ==
    /\ tasks[t].kind = "wqxr"
    /\ tasks[t].pc = "proxy"
    /\ IF tasks[t].aborted
       THEN Throw(t, AbortError, tasks[t].calls, token)
       ELSE /\ Served(t)
            /\ proxy[ConnectionOf(t)].pc = "done"
            /\ LET res == proxy[ConnectionOf(t)] IN
               WqxrProxyResponse(t,
                   IF res.status = 200 THEN "ok" ELSE "fail",
                   [present |-> res.body.kind = "tracks",
                    length |-> Len(res.body.tracks)])

NextWqxr ==
    \/ SetProfile
    \/ ClickCreateWQXR
    \/ Cancel("wqxr")
    \/ \E t \in TaskIds : WqxrRequest(t)
    \/ \E c \in Connections : ProxyAxiosDone(c)
    \/ \E t \in TaskIds : WqxrProxyAnswered(t)
    \/ \E t \in TaskIds : WqxrSearchDone(t)
    \/ \E t \in TaskIds : WqxrSearchDelayDone(t)
    \/ \E t \in TaskIds : WqxrCreateDone(t)
    \/ \E t \in TaskIds : WqxrAppendDone(t)

SpecWqxr == Init /\ [][NextWqxr]_vars

\* ------------------------------------------------------------------
\* The matching stage on its own: the WQXR handler after the proxy has
\* answered with n tracks (line 1035), or the AI handler after the model
\* has suggested n songs for its first batch (line 1174), at the first
\* search call.
MaxQueries == 3

InitMatch ==
    \E kind \in {"wqxr", "ai"}, n \in 1..MaxQueries :
        /\ token = TRUE
        /\ profile = TRUE
        /\ creatorStatus = IF kind = "wqxr"
                           THEN "Found tracks from WQXR. Searching on Spotify..."
                           ELSE "Searching for suggested songs on Spotify..."
        /\ creatorError = <<>>
        /\ createdPlaylist = NoPlaylist
        /\ libraryVersion = 0
        /\ isLoading = [f \in Flags |-> f = FlagOf(kind)]
        /\ progress = [f \in ProgressFlags |-> Zero]
        /\ abortController = [f \in Flags |->
                                 IF f = FlagOf(kind) THEN 1 ELSE NoController]
        /\ availableGenres = <<>>
        /\ selectedGenres = <<>>
        /\ tasks = [t \in TaskIds |->
                       IF t = 1
                       THEN [IdleTask EXCEPT
                               !.kind = kind, !.pc = "search", !.n = n,
                               !.calls = <<[Call(IF kind = "wqxr" THEN "proxy"
                                                 ELSE "gemini", 0, Undefined)
                                               EXCEPT !.st = "ok"],
                                           Call("search", 1, Undefined)>>]
                       ELSE IdleTask]
        /\ started = 1
        /\ proxy = NoRequests
        /\ NoCache
        /\ clickRejected = FALSE
        /\ last = NoLast

NextMatch ==
    \/ \E t \in TaskIds : WqxrSearchDone(t)
    \/ \E t \in TaskIds : WqxrSearchDelayDone(t)
    \/ \E t \in TaskIds : AiSearchDone(t)
    \/ \E t \in TaskIds : AiSearchDelayDone(t)

SpecMatch == InitMatch /\ [][NextMatch]_vars

\* ------------------------------------------------------------------
\* The handlers that write playlists, at their first create call, with a
\* list of m track URIs.  The WQXR list has one entry per matched item of
\* the scraped page, the AI list one per matched suggestion and the
\* all-songs list one per unique track of the library; the top-tracks list
\* comes from two pages of at most 50 tracks and the fusion list from one
\* recommendation response of at most 50.
MaxMatched == 101
topTracksLimit == 50
recommendationsLimit == 50

MatchedUris(m) == [k \in 1..m |-> TrackUri(ToString(k))]

WriteSizes(kind) ==
    CASE kind = "wqxr" -> {1, chunkSize, MaxMatched}
      [] kind = "ai" -> {1, chunkSize, MaxMatched}
      [] kind = "top" -> {1, 2 * topTracksLimit}
      [] kind = "fusion" -> {1, recommendationsLimit}
      [] kind = "all" -> {1, chunkSizeForAdding + 1, SPOTIFY_PLAYLIST_LIMIT + 1}

InitWrite ==
    \E kind \in WritingKinds :
      \E m \in WriteSizes(kind) :
        /\ token = TRUE
        /\ profile = TRUE
        /\ creatorStatus = "Creating playlist..."
        /\ creatorError = <<>>
        /\ createdPlaylist = NoPlaylist
        /\ libraryVersion = 0
        /\ isLoading = [f \in Flags |-> f = FlagOf(kind)]
        /\ progress = [f \in ProgressFlags |-> Zero]
        /\ abortController = [f \in Flags |->
                                 IF f = FlagOf(kind) THEN 1 ELSE NoController]
        /\ availableGenres = <<>>
        /\ selectedGenres = <<>>
        /\ tasks = [t \in TaskIds |->
                       IF t = 1
                       THEN [IdleTask EXCEPT
                               !.kind = kind, !.pc = "create",
                               !.uris = IF kind = "all" THEN <<>>
                                        ELSE MatchedUris(m),
                               !.extra = IF kind = "all" THEN m ELSE 0,
                               !.calls = <<Call("create", 0, Undefined)>>]
                       ELSE IdleTask]
        /\ started = 1
        /\ proxy = NoRequests
        /\ NoCache
        /\ clickRejected = FALSE
        /\ last = NoLast

NextWrite ==
    \/ \E f \in Flags : Cancel(f)
    \/ \E t \in TaskIds : WqxrCreateDone(t)
    \/ \E t \in TaskIds : WqxrAppendDone(t)
    \/ \E t \in TaskIds : AiCreateDone(t)
    \/ \E t \in TaskIds : AiAppendDone(t)
    \/ \E t \in TaskIds : AiAppendDelayDone(t)
    \/ \E t \in TaskIds : TopCreateDone(t)
    \/ \E t \in TaskIds : TopAppendDone(t)
    \/ \E t \in TaskIds : FusionCreateDone(t)
    \/ \E t \in TaskIds : FusionAppendDone(t)
    \/ \E t \in TaskIds : AllCreateDone(t)
    \/ \E t \in TaskIds : AllAppendDone(t)
    \/ \E t \in TaskIds : AllAppendDelayDone(t)

SpecWrite == InitWrite /\ [][NextWrite]_vars

\* ------------------------------------------------------------------
\* handleCreateAiPlaylist of src/src/App.jsx: one call of the model, then
\* one search per suggested song, every search dispatched by
\* Promise.all(aiSuggestions.map(async ...)) before any of them has
\* completed.  The handler has no AbortController and calls fetch directly.
\* The stage starts with the call of the model in flight and ends at the
\* create call.

\* catch (e) { setError(`An error occurred: ${e.message}`); setStatus('') }
\* finally { setIsCustomLoading(false) }
AppJsxThrow(t, err, calls) ==
    /\ creatorError' = <<"An error occurred: ">> \o err.message
    /\ creatorStatus' = ""
    /\ Finally(t, "Failed", calls)
    /\ UNCHANGED <<token, createdPlaylist, libraryVersion, availableGenres,
                   selectedGenres>>

InitParallel ==
    /\ token = TRUE
    /\ profile = TRUE
    /\ creatorStatus = "Asking AI for song ideas... This may take a moment."
    /\ creatorError = <<>>
    /\ createdPlaylist = NoPlaylist
    /\ libraryVersion = 0
    /\ isLoading = [f \in Flags |-> f = "custom"]
    /\ progress = [f \in ProgressFlags |-> Zero]
    /\ abortController = [f \in Flags |-> NoController]
    /\ availableGenres = <<>>
    /\ selectedGenres = <<>>
    /\ tasks = [t \in TaskIds |->
                   IF t = 1
                   THEN [IdleTask EXCEPT !.kind = "ai", !.pc = "geminiAll",
                                         !.calls = FirstCall("gemini")]
                   ELSE IdleTask]
    /\ started = 0
    /\ proxy = NoRequests
    /\ NoCache
    /\ clickRejected = FALSE
    /\ last = NoLast

\* The searches of a log that are in flight.
InFlight(calls) ==
    {k \in 1..Len(calls) : calls[k].op = "search" /\ calls[k].st = "pending"}

\* await fetch(apiUrl) ... aiSuggestions.map(async (song) => { await
\* fetch(search) ... }): the model has suggested n songs, and the searches
\* for all of them are sent in the same step.
AppJsxGeminiDone(t) ==
    /\ tasks[t].kind = "ai"
    /\ tasks[t].pc = "geminiAll"
    /\ \E out \in HttpOutcomes, n \in 0..MaxQueries :
         LET calls == Settle(tasks[t].calls, out)
         IN  IF out = "neterr"
             THEN AppJsxThrow(t, NetworkError, calls)
             ELSE IF out # "ok"
             THEN AppJsxThrow(t, Error(<<"AI request failed: ", "status">>),
                              calls)
             ELSE IF n = 0
             THEN AppJsxThrow(t, Error(<<"The AI could not suggest any songs for this theme. Please try a different prompt.">>),
                              calls)
             ELSE Proceed(t,
                    [tasks[t] EXCEPT
                       !.pc = "searchAll", !.n = n,
                       !.calls = calls \o [k \in 1..n |->
                                             Call("search", k, Undefined)]],
                    "Searching for suggested songs on Spotify...", progress)

\* One of the searches in flight is answered: await fetch(search);
\* await json(); trackUris.push(items[0].uri).  A rejected mapper rejects
\* Promise.all; when the last mapper has returned, the handler goes on to
\* the create call.
AppJsxSearchDone(t, k) ==
    /\ tasks[t].kind = "ai"
    /\ tasks[t].pc = "searchAll"
    /\ k \in InFlight(tasks[t].calls)
    /\ \E out \in HttpOutcomes, items \in SearchItems :
         LET calls == [tasks[t].calls EXCEPT ![k] =
                          [@ EXCEPT !.st = out,
                                    !.pl = IF out = "ok" THEN items ELSE @]]
             trackUris == IF items = <<>> THEN tasks[t].uris
                          ELSE Append(tasks[t].uris, items[1])
         IN  IF out = "neterr"
             THEN AppJsxThrow(t, NetworkError, calls)
             ELSE IF out # "ok"
             THEN AppJsxThrow(t, TypeError(<<"Cannot read properties of undefined (reading 'items')">>),
                              calls)
             ELSE IF InFlight(calls) # {}
             THEN Proceed(t, [tasks[t] EXCEPT !.calls = calls,
                                              !.uris = trackUris],
                          creatorStatus, progress)
             ELSE IF trackUris = <<>>
             THEN AppJsxThrow(t, Error(<<"Could not find any of the AI-suggested songs on Spotify. The AI might be hallucinating!">>),
                              calls)
             ELSE Proceed(t,
                    [tasks[t] EXCEPT
                       !.pc = "create", !.uris = trackUris,
                       !.calls = Append(calls, Call("create", 0, Undefined))],
                    "Creating playlist...", progress)

NextParallel ==
    \/ \E t \in TaskIds : AppJsxGeminiDone(t)
    \/ \E t \in TaskIds, k \in 1..(MaxQueries + 1) : AppJsxSearchDone(t, k)

SpecParallel == InitParallel /\ [][NextParallel]_vars

\* ------------------------------------------------------------------
\* Genre fusion after a scan that has found MaxAvailable genres: the user
\* selects genres and starts the handler, and the two requests for seeds
\* (`limit=5`) are answered with lists of up to seedLimit entries.
MaxAvailable == 4
seedLimit == 5

InitFusion ==
    /\ token = TRUE
    /\ profile = TRUE
    /\ creatorStatus = "Found unique genres. Select 1 to 3 genres to create a fusion playlist."
    /\ creatorError = <<>>
    /\ createdPlaylist = NoPlaylist
    /\ libraryVersion = 0
    /\ isLoading = [f \in Flags |-> FALSE]
    /\ progress = [f \in ProgressFlags |-> Zero]
    /\ abortController = [f \in Flags |-> NoController]
    /\ availableGenres = [k \in 1..MaxAvailable |-> k]
    /\ selectedGenres = <<>>
    /\ tasks = [t \in TaskIds |-> IdleTask]
    /\ started = 0
    /\ proxy = NoRequests
    /\ NoCache
    /\ clickRejected = FALSE
    /\ last = NoLast

FusionSeedArtistsDone(t) ==
    \E out \in HttpOutcomes, n \in 0..seedLimit :
        FusionTopArtistsAnswer(t, out, n)

FusionSeedTracksDone(t) ==
    \E out \in HttpOutcomes, n \in 0..seedLimit :
        FusionTopTracksAnswer(t, out, n)

NextFusion ==
    \/ \E genre \in 1..MaxAvailable : ClickGenre(genre)
    \/ ClickCreateGenreFusion
    \/ \E t \in TaskIds : FusionSeedArtistsDone(t)
    \/ \E t \in TaskIds : FusionSeedTracksDone(t)
    \/ \E t \in TaskIds : FusionRecsDone(t)
    \/ \E t \in TaskIds : FusionCreateDone(t)
    \/ \E t \in TaskIds : FusionAppendDone(t)

SpecFusion == InitFusion /\ [][NextFusion]_vars

\* ------------------------------------------------------------------
\* The hook and its cache across logins: the application starts logged in
\* with an empty cache.
NextCache ==
    \/ \E tok \in Tokens : Login(tok)
    \/ logout
    \/ \E endpoint \in Urls : Mount(endpoint)
    \/ \E endpoint \in Urls : Unmount(endpoint)
    \/ \E endpoint \in Urls : FetchDone(endpoint)
    \/ Tick

SpecCache == Init /\ [][NextCache]_vars

\* ============================================================ properties
RunningTasks == {t \in TaskIds : Running(t)}
SetFlags == {f \in Flags : isLoading[f]}

\* C1: in every reachable state at most one curation task is Running and
\* at most one of the five loading flags is set; a task is Running exactly
\* while its flag is set, so a start request made meanwhile has started
\* nothing (it is rejected, not queued).
C1_MutualExclusion ==
    /\ Cardinality(RunningTasks) <= 1
    /\ Cardinality(SetFlags) <= 1
    /\ \A t \in RunningTasks : SetFlags = {FlagOf(tasks[t].kind)}
    /\ SetFlags # {} => RunningTasks # {}

\* A start button was clicked while the all-songs task was appending.
C1_Witness ==
    /\ clickRejected
    /\ isLoading["allSongs"]
    /\ \E t \in TaskIds : tasks[t].kind = "all" /\ tasks[t].pc = "append"

\* A click on one of the six start buttons.
StartClick ==
    \/ ClickCreateWQXR
    \/ ClickCreateAi
    \/ ClickCreateTopTracks
    \/ ClickCreateAllSongs
    \/ ClickFetchAvailableGenres
    \/ ClickCreateGenreFusion

\* C3: a start request of any kind made while a task is Running changes
\* neither the loading flags, the progress values, the AbortController
\* references nor creatorStatus, creatorError and createdPlaylist.
C3_RejectedStartChangesNothing ==
    [][(RunningTasks # {} /\ StartClick) =>
          UNCHANGED <<isLoading, progress, abortController, creatorStatus,
                      creatorError, createdPlaylist, tasks>>]_vars

\* A start button was clicked while the WQXR task had made progress.
C3_Witness ==
    /\ clickRejected
    /\ isLoading["wqxr"]
    /\ progress["wqxr"].num > 0
    /\ abortController["wqxr"] # NoController

\* C4: in the all-songs rollup every append call carries between 1 and 100
\* items, and a run that succeeds with n unique URIs has made
\* ceil(n / 10000) create calls and append calls whose item counts sum to n.
C4_BatchCounts ==
    /\ \A t \in TaskIds :
          tasks[t].kind = "all" =>
              \A k \in 1..Len(tasks[t].calls) :
                  tasks[t].calls[k].op = "append" =>
                      (1 <= tasks[t].calls[k].n /\ tasks[t].calls[k].n <= 100)
    /\ (last.kind = "all" /\ last.outcome = "Succeeded") =>
          /\ last.total >= 1
          /\ (last.creates - 1) * 10000 < last.total
          /\ last.total <= last.creates * 10000
          /\ Len(last.created) = last.creates
          /\ last.appended = last.total

\* The rollup of 25,000 songs has succeeded with 3 collections.
C4_Witness ==
    /\ last.kind = "all"
    /\ last.outcome = "Succeeded"
    /\ last.total = 25000
    /\ last.creates = 3
    /\ last.appended = 25000

\* C2: once the cancel handler has aborted the controller of the Running
\* task, the task issues no further network call and ends Cancelled, never
\* Failed or Succeeded.
C2_CancelEndsCancelled ==
    /\ last.aborted => last.outcome = "Cancelled"
    /\ \A t \in TaskIds :
          (Running(t) /\ tasks[t].aborted) =>
              \A k \in 1..Len(tasks[t].calls) :
                  tasks[t].calls[k].st \in {"pending", "aborted"} =>
                      k = Len(tasks[t].calls)

\* C5: for every kind that writes a playlist, a failure response to an
\* append call ends the task Failed: it is never reported Succeeded, and
\* no append call follows the failed one.
C5_AppendFailureIsFatal ==
    /\ (last.appendFailed /\ ~last.aborted) => last.outcome = "Failed"
    /\ \A t \in TaskIds :
          \A k \in 1..Len(tasks[t].calls) :
              (tasks[t].calls[k].op = "append" /\ tasks[t].calls[k].st = "fail")
                  => k = Len(tasks[t].calls)

\* The terminal state shows the collection pl to the caller.
Surfaced(pl) == createdPlaylist = pl

\* C6: when the all-songs rollup ends Failed on a chunk append after k >= 1
\* collections were created, every one of the k collections is surfaced in
\* the terminal state.
C6_CreatedCollectionsSurfaced ==
    (/\ last.kind = "all"
     /\ last.outcome = "Failed"
     /\ last.appendFailed
     /\ \A t \in TaskIds : ~Running(t))
        => \A k \in 1..Len(last.created) : Surfaced(last.created[k])

\* C7: for every kind that writes a playlist, a failure response to the
\* create call ends the task Failed, and no append call is issued for the
\* collection that was not created.
C7_CreateFailureIsFatal ==
    /\ (last.createFailed /\ ~last.aborted) => last.outcome = "Failed"
    /\ \A t \in TaskIds :
          \A k \in 1..Len(tasks[t].calls) :
              (tasks[t].calls[k].op = "create" /\ tasks[t].calls[k].st = "fail")
                  => k = Len(tasks[t].calls)

\* C8: in the WQXR and AI tasks a non-2xx response to a search query does
\* not end the task Failed: the task is still Running after the step that
\* receives it.
C8_SearchFailureIsNoMatch ==
    ~(/\ last.kind \in {"wqxr", "ai"}
      /\ last.pc = "search"
      /\ last.answer = "fail"
      /\ last.outcome = "Failed")

\* No element of the sequence occurs twice.
NoDuplicates(seq) ==
    \A j, k \in 1..Len(seq) : seq[j] = seq[k] => j = k

\* C9: the track list of the library walk holds no identifier twice and
\* only identifiers that start with 'spotify:track:', whatever the pages
\* were.
C9_WalkListIsSet ==
    \A t \in TaskIds :
        Walks(t) =>
            /\ NoDuplicates(tasks[t].uris)
            /\ \A k \in 1..Len(tasks[t].uris) :
                  /\ Len(tasks[t].uris[k]) = 3
                  /\ tasks[t].uris[k][1] = "spotify"
                  /\ tasks[t].uris[k][2] = "track"

\* The walk has returned two tracks after pages that held malformed
\* entries and a track seen before.
C9_Witness ==
    \E t \in TaskIds :
        /\ tasks[t].kind = "all"
        /\ tasks[t].pc = "create"
        /\ tasks[t].skipped
        /\ tasks[t].repeated
        /\ Len(tasks[t].uris) = 2

\* C10: a track page that was answered with a 2xx response never ends the
\* walk, whatever the shapes of its items.
C10_MalformedItemNeverAborts ==
    ~(/\ last.pc = "tracksPage"
      /\ last.answer = "ok"
      /\ last.outcome = "Failed")

\* The calls of the log that ask for a track page, by their place in it.
TrackCalls(calls) == {k \in 1..Len(calls) : calls[k].op = "tracks"}

\* C11: after a non-2xx response to a track-page fetch of one playlist the
\* walk fetches no further page of that playlist; it keeps the identifiers
\* collected so far and goes on to the next playlist, and its list holds
\* every well-formed identifier of the pages that were fetched
\* successfully.
C11_FailedPageSkipsPlaylist ==
    /\ [](\A t \in TaskIds :
            Walks(t) =>
                /\ \A j, k \in TrackCalls(tasks[t].calls) :
                      (j < k /\ tasks[t].calls[j].st = "fail")
                          => tasks[t].calls[k].pl # tasks[t].calls[j].pl
                /\ {tasks[t].uris[k] : k \in 1..Len(tasks[t].uris)}
                      = tasks[t].sawTracks)
    /\ [][\A t \in TaskIds :
            (/\ Walks(t)
             /\ tasks[t].pc = "tracksPage"
             /\ tasks'[t].pc = "tracksPage"
             /\ tasks'[t].calls[Len(tasks[t].calls)].st = "fail")
                => /\ tasks'[t].i = tasks[t].i + 1
                   /\ tasks'[t].uris = tasks[t].uris]_vars

\* The walk has returned two tracks: one from the first page of a playlist
\* whose second page failed, one from the playlist after it.
C11_Witness ==
    \E t \in TaskIds :
        /\ tasks[t].kind = "all"
        /\ tasks[t].pc = "create"
        /\ Len(tasks[t].uris) = 2
        /\ \E j, k \in TrackCalls(tasks[t].calls) :
              /\ j + 1 = k
              /\ tasks[t].calls[j].st = "ok"
              /\ tasks[t].calls[k].st = "fail"
              /\ tasks[t].calls[j].pl = Listed(1)
              /\ tasks[t].calls[k].pl = Listed(1)
        /\ \E k \in TrackCalls(tasks[t].calls) :
              /\ tasks[t].calls[k].st = "ok"
              /\ tasks[t].calls[k].pl = Listed(2)

\* The listing of task t is complete and holds no playlist.
ListedNothing(t) ==
    /\ Walks(t)
    /\ tasks[t].pc = "playlistsDelay"
    /\ ~tasks[t].more
    /\ tasks[t].playlists = 0

\* C12: when the playlist listing completes with zero playlists, the task
\* that called the walk ends Failed with the 'no playlists' message, and
\* the run has issued no track-page fetch and no create call.
C12_NoPlaylistsFails ==
    [][\A t \in TaskIds :
          (ListedNothing(t) /\ tasks'[t].pc # tasks[t].pc)
              => /\ tasks'[t].pc = "idle"
                 /\ last'.kind = tasks[t].kind
                 /\ last'.outcome = "Failed"
                 /\ creatorError'
                      = <<"You have no playlists in your Spotify library.">>
                 /\ last'.creates = 0
                 /\ \A k \in 1..Len(tasks[t].calls) :
                       tasks[t].calls[k].op = "playlists"]_vars

\* The all-songs rollup has failed on a library without playlists.
C12_Witness ==
    /\ last.kind = "all"
    /\ last.outcome = "Failed"
    /\ last.pc = "playlistsDelay"
    /\ ~last.aborted
    /\ creatorError = <<"You have no playlists in your Spotify library.">>

\* C13: for every kind that writes a playlist, a run whose list of matched
\* or collected identifiers is empty issues no create call and no append
\* call, and it ends Failed with an error unless it was cancelled.
C13_EmptyListNeverCreates ==
    /\ \A t \in TaskIds :
          (tasks[t].kind \in WritingKinds /\ totalSongs(tasks[t]) = 0)
              => \A k \in 1..Len(tasks[t].calls) :
                    tasks[t].calls[k].op \notin {"create", "append"}
    /\ (last.kind \in WritingKinds /\ last.total = 0)
          => /\ last.creates = 0
             /\ last.appended = 0
             /\ last.outcome \in {"Failed", "Cancelled"}
             /\ (last.outcome = "Cancelled") => last.aborted

\* The WQXR task has failed after searches that matched nothing.
C13_Witness ==
    /\ last.kind = "wqxr"
    /\ last.pc = "searchDelay"
    /\ last.outcome = "Failed"
    /\ ~last.aborted
    /\ last.total = 0
    /\ creatorError = <<"Could not find any of the WQXR tracks on Spotify.">>

\* a <= b for two fractions with positive denominators.
AtMost(a, b) == a.num * b.den <= b.num * a.den

\* C14: while a task is Running its progress value lies in 0..100 and does
\* not decrease from one step to the next, for every kind and every number
\* of songs.
C14_ProgressMonotonic ==
    [][\A f \in ProgressFlags :
          (isLoading[f] /\ isLoading'[f])
              => /\ AtMost(progress[f], progress'[f])
                 /\ AtMost(Zero, progress'[f])
                 /\ AtMost(progress'[f], Frac(100, 1))]_vars

\* C15: after a task that writes a playlist has ended Succeeded, and until
\* another task enters Running, createdPlaylist stays set to the created
\* playlist: no rejected start request and no other event clears or
\* replaces it.
C15_ResultRetained ==
    (/\ last.kind \in WritingKinds
     /\ last.outcome = "Succeeded"
     /\ ~last.createFailed)
        => createdPlaylist.type = "playlist"

\* C16: a 401 response to a Spotify API call of a Running task logs the
\* session out and ends the task Failed; the task issues no call after it.
C16_UnauthorizedLogsOut ==
    /\ \A t \in TaskIds :
          \A k \in 1..Len(tasks[t].calls) : tasks[t].calls[k].st # "unauth"
    /\ last.answer = "unauth"
          => /\ last.outcome = "Failed"
             /\ ~token

\* The all-songs rollup has failed on a 401 response to an append call.
C16_Witness ==
    /\ last.kind = "all"
    /\ last.pc = "append"
    /\ last.answer = "unauth"
    /\ last.outcome = "Failed"
    /\ ~token
    /\ creatorError = <<"User is not authenticated">>

\* The connections whose request was answered.
Answered200 == {c \in Connections : proxy[c].pc = "done" /\ proxy[c].status = 200}

\* The item has a title and a performer once both are trimmed.
WellFormed(item) == Trim(item.title) # <<>> /\ Trim(item.musicians) # <<>>

\* C17: the tracks array of a response holds exactly one entry for each
\* item of the page whose trimmed title and trimmed performer are both
\* non-empty, in page order, and no entry with an empty field.
C17_ScrapeKeepsWellFormed ==
    \A c \in Answered200 :
        LET kept == SelectSeq(proxy[c].upstream.items, WellFormed)
            out == proxy[c].body.tracks
        IN  /\ proxy[c].body.kind = "tracks"
            /\ Len(out) = Len(kept)
            /\ \A k \in 1..Len(out) :
                  /\ out[k].title = Trim(kept[k].title)
                  /\ out[k].composer = Trim(kept[k].musicians)
                  /\ out[k].title # <<>>
                  /\ out[k].composer # <<>>

\* The page with three well-formed items and one item without a performer
\* was answered with three tracks.
C17_Witness ==
    \E c \in Answered200 :
        /\ proxy[c].upstream.items = FixturePage
        /\ Len(proxy[c].body.tracks) = 3

\* C18: the URL the proxy fetches holds the year, month and day of the
\* request, and requests with different dates fetch different URLs.
C18_UrlBuiltFromDate ==
    /\ \A c \in Connections :
          \A k \in 1..Len(proxy[c].fetched) :
              /\ proxy[c].fetched[k][2] = proxy[c].query.year
              /\ proxy[c].fetched[k][3] = proxy[c].query.month
              /\ proxy[c].fetched[k][4] = proxy[c].query.day
    /\ \A c, d \in Connections :
          (/\ proxy[c].fetched # <<>>
           /\ proxy[d].fetched # <<>>
           /\ proxy[c].query # proxy[d].query)
              => proxy[c].fetched[1] # proxy[d].fetched[1]

\* C19: a request in which year, month or day is missing or empty is
\* answered with status 400 and an error body, and nothing is fetched for
\* it.
C19_MissingDateIs400 ==
    \A c \in Connections :
        (/\ proxy[c].pc # "idle"
         /\ \/ proxy[c].query.year \in {Undefined, ""}
            \/ proxy[c].query.month \in {Undefined, ""}
            \/ proxy[c].query.day \in {Undefined, ""})
            => /\ proxy[c].pc = "done"
               /\ proxy[c].status = 400
               /\ proxy[c].body.kind = "error"
               /\ proxy[c].fetched = <<>>

\* A request with an empty year was answered 400 while a request with a
\* full date was waiting for the page.
C19_Witness ==
    \E c, d \in Connections :
        /\ proxy[c].pc = "done"
        /\ proxy[c].query.year = ""
        /\ proxy[c].query.month = "jun"
        /\ proxy[c].status = 400
        /\ proxy[d].pc = "fetching"

\* C20: when the fetch of the page fails or parsing throws, the request is
\* answered with status 500 and an error body, never with 200, and the
\* page is fetched once for a request.
C20_UpstreamFailureIs500 ==
    \A c \in Connections :
        /\ Len(proxy[c].fetched) <= 1
        /\ proxy[c].upstream.kind \in Failures
              => /\ proxy[c].pc = "done"
                 /\ proxy[c].status = 500
                 /\ proxy[c].body.kind = "error"

\* One request was answered 500 after a non-2xx page, another after a
\* throw of the parser.
C20_Witness ==
    \E c, d \in Connections :
        /\ proxy[c].upstream.kind = "status"
        /\ proxy[c].status = 500
        /\ proxy[d].upstream.kind = "throws"
        /\ proxy[d].status = 500

\* The page of the request on connection c was fetched and none of its
\* items has both a title and a performer.
NothingWellFormed(c) ==
    /\ proxy[c].pc = "done"
    /\ proxy[c].upstream.kind = "page"
    /\ \A k \in 1..Len(proxy[c].upstream.items) :
          ~WellFormed(proxy[c].upstream.items[k])

\* C21: a page without an item that has both fields is answered by the
\* proxy with status 200 and an empty tracks array, not with an error; the
\* WQXR task that receives the empty array ends Failed with the 'could not
\* parse' message, and it has issued no search call and no create call.
C21_EmptyScrapeFailsInCaller ==
    /\ [](\A c \in Connections :
            NothingWellFormed(c)
                => /\ proxy[c].status = 200
                   /\ proxy[c].body.kind = "tracks"
                   /\ proxy[c].body.tracks = <<>>)
    /\ [][\A t \in TaskIds :
            (/\ tasks[t].kind = "wqxr"
             /\ tasks[t].pc = "proxy"
             /\ ~tasks[t].aborted
             /\ NothingWellFormed(ConnectionOf(t))
             /\ tasks'[t].pc # "proxy")
                => /\ tasks'[t].pc = "idle"
                   /\ last'.kind = "wqxr"
                   /\ last'.outcome = "Failed"
                   /\ last'.creates = 0
                   /\ creatorError'
                        = <<"Could not parse any tracks from the WQXR playlist.">>
                   /\ \A k \in 1..Len(tasks[t].calls) :
                         tasks[t].calls[k].op = "proxy"]_vars

\* The proxy has answered 200 with no track for a page of two items that
\* lack a field, and the WQXR task has failed on it.
C21_Witness ==
    /\ NothingWellFormed(ConnectionOf(1))
    /\ Len(proxy[ConnectionOf(1)].upstream.items) = 2
    /\ proxy[ConnectionOf(1)].status = 200
    /\ last.kind = "wqxr"
    /\ last.pc = "proxy"
    /\ last.outcome = "Failed"
    /\ ~last.aborted
    /\ creatorError = <<"Could not parse any tracks from the WQXR playlist.">>

\* C22: a task slot goes Idle -> Running -> Succeeded, Failed or Cancelled
\* -> Idle, and a slot that is back at Idle has its loading flag false, its
\* progress at 0 and its AbortController reference cleared, for every kind
\* of task.
C22_TaskReturnsToIdle ==
    /\ (last.kind # "none" /\ RunningTasks = {})
          => last.outcome \in {"Succeeded", "Failed", "Cancelled"}
    /\ \A f \in Flags :
          ~isLoading[f]
              => /\ abortController[f] = NoController
                 /\ f \in ProgressFlags => progress[f] = Zero

\* The search calls of a log, by their place in it.
SearchCalls(calls) == {k \in 1..Len(calls) : calls[k].op = "search"}

\* The first candidate of every answered search call that had a candidate,
\* in the order of the calls.
RECURSIVE FirstCandidates(_)
FirstCandidates(calls) ==
    IF calls = <<>> THEN <<>>
    ELSE LET c == Head(calls)
         IN  (IF c.op = "search" /\ c.st = "ok" /\ c.pl # <<>>
              THEN <<c.pl[1]>> ELSE <<>>)
                 \o FirstCandidates(Tail(calls))

\* The sequence without the later occurrences of its elements.
RECURSIVE Distinct(_)
Distinct(seq) ==
    IF seq = <<>> THEN <<>>
    ELSE LET front == Distinct(SubSeq(seq, 1, Len(seq) - 1))
             x == seq[Len(seq)]
         IN  IF \E k \in 1..Len(front) : front[k] = x THEN front
             ELSE Append(front, x)

\* C23: the search calls of a matching stage carry the queries of the list
\* one by one in list order (none twice, none skipped), a stage that has
\* run to its end has issued as many search calls as there are queries,
\* and what a query contributes is the first candidate of its response or
\* nothing: the WQXR list is the first candidates in query order (the AI
\* list the same without repetitions).
C23_OneSearchPerQuery ==
    /\ [](\A t \in TaskIds :
            tasks[t].kind \in {"wqxr", "ai"} =>
                /\ \A k \in SearchCalls(tasks[t].calls) :
                      tasks[t].calls[k].n
                          = IF tasks[t].calls[k - 1].op = "search"
                            THEN tasks[t].calls[k - 1].n + 1 ELSE 1
                /\ tasks[t].kind = "wqxr"
                      => tasks[t].uris = FirstCandidates(tasks[t].calls)
                /\ tasks[t].kind = "ai"
                      => tasks[t].uris
                            = Distinct(FirstCandidates(tasks[t].calls)))
    /\ [][\A t \in TaskIds :
            (/\ tasks[t].kind \in {"wqxr", "ai"}
             /\ tasks[t].pc = "searchDelay"
             /\ tasks'[t].pc \notin {"search", "searchDelay"})
                => Cardinality(SearchCalls(tasks[t].calls)) = tasks[t].n]_vars

\* The WQXR task has matched three queries: the first response had two
\* candidates, the second none, the third one.
C23_Witness ==
    \E t \in TaskIds :
        /\ tasks[t].kind = "wqxr"
        /\ tasks[t].pc = "create"
        /\ tasks[t].n = 3
        /\ tasks[t].calls[2].pl = <<TrackUri("b"), TrackUri("a")>>
        /\ tasks[t].calls[3].pl = <<>>
        /\ tasks[t].calls[4].pl = <<TrackUri("a")>>
        /\ tasks[t].uris = <<TrackUri("b"), TrackUri("a")>>

\* The append calls of a log that were sent to the collection pl.
AppendsTo(calls, pl) ==
    Cardinality({k \in 1..Len(calls) :
                    calls[k].op = "append" /\ calls[k].pl = pl})

\* The all-songs task t leaves the collection it has been writing.
LeavesCollection(t) ==
    /\ tasks[t].kind = "all"
    /\ tasks[t].pc = "appendDelay"
    /\ tasks'[t].pc \in {"create", "idle"}

\* The number of items of part p (from 0) of a list of total items.
PartSize(total, p) ==
    IF total - p * 10000 < 10000 THEN total - p * 10000 ELSE 10000

\* C24 as stated: the items are split into ceil(len / collectionSizeLimit)
\* collections, and every collection is written in
\* ceil(collectionSizeLimit / chunkSize) append calls.
C24_EveryCollectionFullCalls ==
    [][\A t \in TaskIds :
          LeavesCollection(t)
              => /\ AppendsTo(tasks[t].calls, tasks[t].newPlaylist.id)
                      = Ceil(SPOTIFY_PLAYLIST_LIMIT, chunkSizeForAdding)
                 /\ tasks'[t].pc = "idle"
                      => tasks[t].batch + 1
                           = Ceil(totalSongs(tasks[t]), SPOTIFY_PLAYLIST_LIMIT)]_vars

\* C24, amended: the items are split into ceil(len / 10000) collections,
\* and a collection is written in ceil(size of the collection / 100)
\* append calls: 100 calls for a collection of 10000 items, fewer for the
\* last collection when it is not full.
C24_CollectionCalls ==
    [][\A t \in TaskIds :
          LeavesCollection(t)
              => /\ AppendsTo(tasks[t].calls, tasks[t].newPlaylist.id)
                      = (PartSize(totalSongs(tasks[t]), tasks[t].batch) + 99)
                            \div 100
                 /\ PartSize(totalSongs(tasks[t]), tasks[t].batch) = 10000
                      => AppendsTo(tasks[t].calls, tasks[t].newPlaylist.id)
                            = 100
                 /\ tasks'[t].pc = "idle"
                      => (/\ tasks[t].batch * 10000 < totalSongs(tasks[t])
                          /\ totalSongs(tasks[t])
                                <= (tasks[t].batch + 1) * 10000)]_vars

\* The third collection of a rollup of 25,000 songs has been written in 50
\* append calls, the first in 100.
C24_Witness ==
    \E t \in TaskIds :
        /\ tasks[t].kind = "all"
        /\ tasks[t].pc = "appendDelay"
        /\ totalSongs(tasks[t]) = 25000
        /\ tasks[t].batch = 2
        /\ AppendsTo(tasks[t].calls, tasks[t].created[1].id) = 100
        /\ AppendsTo(tasks[t].calls, tasks[t].created[3].id) = 50

\* C25: for every kind that writes a playlist and every number of tracks,
\* no append call carries more than 100 track URIs.
C25_AppendAtMost100 ==
    \A t \in TaskIds :
        tasks[t].kind \in WritingKinds =>
            \A k \in 1..Len(tasks[t].calls) :
                tasks[t].calls[k].op = "append" => tasks[t].calls[k].n <= 100

\* The part of the handler's list that is assigned to the collection pl:
\* the all-songs handler gives part p the items [10000 (p - 1), 10000 p),
\* the AI handler writes its whole list to one collection.
SliceStart(kind, pl) == IF kind = "all" THEN (pl[2] - 1) * 10000 ELSE 0
SliceEnd(kind, pl, total) ==
    IF kind = "all" /\ pl[2] * 10000 < total THEN pl[2] * 10000 ELSE total

\* C26: the chunks sent to a collection follow one another in input order:
\* the first begins where the part of the list assigned to the collection
\* begins, each later one begins where the one before it ended, the last
\* ends where the part ends, and a call is issued only when every earlier
\* call of the run has completed.
C26_ChunksInOrder ==
    /\ [](\A t \in TaskIds :
            tasks[t].kind \in {"all", "ai"} =>
                \A k \in 1..Len(tasks[t].calls) :
                    LET c == tasks[t].calls[k] IN
                    /\ k < Len(tasks[t].calls) => c.st # "pending"
                    /\ c.op = "append" =>
                          /\ c.at.from < c.at.to
                          /\ c.n = c.at.to - c.at.from
                          /\ IF tasks[t].calls[k - 1].op = "append"
                             THEN /\ c.pl = tasks[t].calls[k - 1].pl
                                  /\ c.at.from = tasks[t].calls[k - 1].at.to
                             ELSE c.at.from = SliceStart(tasks[t].kind, c.pl))
    /\ [][\A t \in TaskIds :
            (/\ tasks[t].kind \in {"all", "ai"}
             /\ tasks[t].pc = "appendDelay"
             /\ tasks'[t].pc \in {"create", "idle"})
                => LET c == tasks[t].calls[Len(tasks[t].calls)] IN
                   /\ c.op = "append"
                   /\ c.at.to = SliceEnd(tasks[t].kind, c.pl,
                                         totalSongs(tasks[t]))]_vars

\* The rollup of 10,001 songs has sent the last chunk of its first
\* collection and the only chunk of its second one.
C26_Witness ==
    \E t \in TaskIds :
        /\ tasks[t].kind = "all"
        /\ tasks[t].pc = "appendDelay"
        /\ tasks[t].batch = 1
        /\ Len(tasks[t].calls) = 103
        /\ tasks[t].calls[101].at = [from |-> 9900, to |-> 10000]
        /\ tasks[t].calls[101].pl = tasks[t].created[1].id
        /\ tasks[t].calls[103].at = [from |-> 10000, to |-> 10001]
        /\ tasks[t].calls[103].pl = tasks[t].created[2].id

\* C27: when the last call a Running task has issued is a page fetch of the
\* walk (whatever its response), a search call or an append call, the task
\* issues its next network call only in the step that follows the end of
\* the inter-call delay.
C27_DelayAfterEveryCall ==
    [][\A t \in TaskIds :
          (/\ Running(t)
           /\ Len(tasks'[t].calls) > Len(tasks[t].calls)
           /\ tasks[t].calls[Len(tasks[t].calls)].op
                 \in {"playlists", "tracks", "search", "append"})
              => tasks[t].pc \in {"playlistsDelay", "tracksDelay",
                                  "searchDelay", "appendDelay"}]_vars


\* C28: in every matching stage at most one search call is in flight at a
\* time, however many queries the stage has, and a search call is sent
\* only when no earlier search call of the stage is still in flight.
C28_SearchesInFlightBounded ==
    /\ [](\A t \in TaskIds : Cardinality(InFlight(tasks[t].calls)) <= 1)
    /\ [][\A t \in TaskIds :
             Count(tasks'[t].calls, "search") > Count(tasks[t].calls, "search")
                => InFlight(tasks[t].calls) = {}]_vars

\* The data a mounted hook has read from the cache was stored while App
\* held the token it holds now.
OwnData ==
    \A endpoint \in Urls :
        (token /\ hooks[endpoint].isMounted
               /\ hooks[endpoint].from.during \in Tokens)
            => hooks[endpoint].from.during = bearer

\* A step that mounts a hook serves the stored item only if it is younger
\* than five minutes, and removes an older item and calls the API.
ServedWhileFresh ==
    \A endpoint \in Urls :
        (hooks[endpoint].pc = "none" /\ hooks'[endpoint].pc # "none")
            => LET item == localStorage[endpoint] IN
               IF item.kind = "entry" /\ now - item.timestamp < 5 * Minute
               THEN hooks'[endpoint].pc = "done" /\ hooks'[endpoint].data = item.data
               ELSE /\ hooks'[endpoint].pc = "fetching"
                    /\ localStorage'[endpoint] = NoEntry

\* C29: no answer of the API that was stored while App held one token is
\* returned as the data of a hook after a logout and a login with a
\* different token; and a stored item is
\* served only while it is younger than 5 minutes, an older one being
\* removed and fetched again.
C29_CacheIsolatedAndFresh ==
    /\ []OwnData
    /\ [][ServedWhileFresh]_vars

\* The recommendation requests in flight or answered.
RecommendationCalls ==
    {c \in UNION {{tasks[t].calls[k] : k \in 1..Len(tasks[t].calls)} :
                     t \in TaskIds} : c.op = "recommendations"}

\* A click has removed the selected genre g, or has added the unselected
\* genre g to fewer than three.
Toggled(g) ==
    IF \E k \in 1..Len(selectedGenres) : selectedGenres[k] = g
    THEN selectedGenres' = SelectSeq(selectedGenres, LAMBDA x : x # g)
    ELSE Len(selectedGenres) < 3 /\ selectedGenres' = Append(selectedGenres, g)

\* C30: the list of selected genres never holds a genre twice nor more
\* than 3 genres, every click on a genre that changes it removes a
\* selected genre or adds an unselected one to fewer than 3 (the end of a
\* fusion empties it), and every recommendation request
\* carries at least 1 and at most 5 seeds in all: the genres, then as many
\* top artists, then as many top tracks, as still fit.
C30_SelectionAndSeedsBounded ==
    /\ [](/\ NoDuplicates(selectedGenres)
          /\ Len(selectedGenres) <= 3
          /\ \A c \in RecommendationCalls : c.n >= 1 /\ c.n <= 5
          /\ \A t \in TaskIds :
                tasks[t].pc = "recs"
                   => LET g == Len(selectedGenres)
                          a == tasks[t].n
                          tr == tasks[t].i
                      IN  /\ g \in 1..3
                          /\ tasks[t].calls[Len(tasks[t].calls)].n
                                = IF g + a + tr <= 5 THEN g + a + tr ELSE 5)
    /\ [][(selectedGenres' # selectedGenres /\ tasks' = tasks)
             => \E g \in 1..MaxAvailable : Toggled(g)]_vars

\* Three genres are selected, both seed lists have 5 entries, and the
\* recommendation request is in flight with 5 seeds.
C30_Witness ==
    \E t \in TaskIds :
        /\ tasks[t].pc = "recs"
        /\ Len(selectedGenres) = 3
        /\ tasks[t].n = 5
        /\ tasks[t].i = 5
        /\ tasks[t].calls[Len(tasks[t].calls)].op = "recommendations"
        /\ tasks[t].calls[Len(tasks[t].calls)].n = 5
        /\ tasks[t].calls[Len(tasks[t].calls)].st = "pending"


====
